---------------------------- MODULE Spec2Model ----------------------------
(***************************************************************************)
(* Model of the incident triage autopilot (eburns3000/ai-incident-autopilot).*)
(*                                                                         *)
(* Part 1: the policy engine (app/services/policy.py), a pure function of  *)
(*         a normalized incident and an LLM verdict.                       *)
(* Part 2: the web-UI incident handlers (app/routers/incidents.py) over    *)
(*         the web_incidents table and the audit trail.                    *)
(*                                                                         *)
(* Text is modelled as a sequence of one-character strings, so that        *)
(* lower-casing, word-boundary regex search and plain substring search are *)
(* computed the way the code computes them.  Confidence and risk are       *)
(* fixed-point numbers in thousandths (0.70 is 700).                       *)
(***************************************************************************)
EXTENDS Integers, Sequences, FiniteSets, TLC

VARIABLES
    incident,        \* policy engine input: the NormalizedIncident
    llm_result,      \* policy engine input: the LLMTriageResult
    policy_result,   \* NULL before the call, Some(PolicyResult) after it
    web_incidents,   \* the web_incidents table: id -> row
    audit_events,    \* the audit_events table, in insertion order
    audit_jsonl,     \* the JSONL audit file, line by line
    clock,           \* datetime.utcnow(), in ticks
    last_request,    \* the last web-UI request handled
    last_response,   \* the HTTP status it was answered with
    incidents_table, \* the incidents table (correlation records), rowid order
    now,             \* datetime.utcnow() of the ingest service, in minutes
    corr_handlers,   \* correlator callers: where each stands, what it holds
    settings,        \* the Settings the ingest service runs with
    metrics,         \* the global MetricsCounter
    rate_requests,   \* RateLimiter._requests: client ip -> instants (seconds)
    hook_handlers,   \* webhook requests in flight: where each stands
    requests_total,  \* webhook requests received so far
    call_args,       \* a function called on its own: its arguments
    call_result,     \* NULL before the call, Some(value returned) after it
    rate_threads,    \* threads inside RateLimiter.is_allowed
    rate_lock        \* RateLimiter._lock: NULL or Some(thread holding it)

policyVars == <<incident, llm_result, policy_result>>
webVars ==
    <<web_incidents, audit_events, audit_jsonl, clock, last_request,
      last_response>>
corrVars == <<incidents_table, now, corr_handlers>>
hookVars ==
    <<settings, metrics, rate_requests, hook_handlers, requests_total>>
unitVars == <<call_args, call_result, rate_threads, rate_lock>>
vars == <<policyVars, webVars, corrVars, hookVars, unitVars>>

\* Optional[T]: the empty sequence for None, a one-element sequence otherwise
NULL == <<>>
Some(x) == <<x>>

-----------------------------------------------------------------------------
(* Bounds of the model *)

\* words in the title (summary) of an incident handed to the policy engine
MaxWords == 1
\* rows of the web_incidents table
MaxIncidents == 1
\* audit events written by the web-UI handlers
MaxAudit == 4
\* the latest instant of the ingest service's clock, in minutes
MaxClock == 30
\* webhook requests received in one run
MaxRequests == 2
\* Settings.rate_limit_requests the service is configured with: requests
\* allowed per client and window
rate_limit_requests == 1
\* calls of AuditService.log made on their own
MaxLogCalls == 3
\* calls of RateLimiter.is_allowed made by threads of their own
MaxCalls == 4
\* the latest instant, in minutes, of the clock those threads read
MaxRateClock == 1

-----------------------------------------------------------------------------
(* Enumerations of app/models.py *)

PROD == "prod"
STAGING == "staging"
DEV == "dev"
UNKNOWN == "unknown"
Environment == {PROD, STAGING, DEV, UNKNOWN}

Severity == {"P1", "P2", "P3", "P4"}

IncidentType ==
    {"deployment", "database", "network", "application", "security",
     "infrastructure", "unknown"}

IncidentStatus ==
    {"pending", "triaged", "approved", "rejected", "overridden", "resolved"}

-----------------------------------------------------------------------------
(* Text: sequences of characters *)

UpperLetters ==
    <<"A", "B", "C", "D", "E", "F", "G", "H", "I", "J", "K", "L", "M",
      "N", "O", "P", "Q", "R", "S", "T", "U", "V", "W", "X", "Y", "Z">>
LowerLetters ==
    <<"a", "b", "c", "d", "e", "f", "g", "h", "i", "j", "k", "l", "m",
      "n", "o", "p", "q", "r", "s", "t", "u", "v", "w", "x", "y", "z">>
Digits == {"0", "1", "2", "3", "4", "5", "6", "7", "8", "9"}

Range(s) == {s[i] : i \in DOMAIN s}

UpperSet == Range(UpperLetters)
LowerSet == Range(LowerLetters)

\* str.lower() and str.upper() on one letter, tabulated
LowerOf == [c \in UpperSet |->
    LowerLetters[CHOOSE i \in DOMAIN UpperLetters : UpperLetters[i] = c]]
UpperOf == [c \in LowerSet |->
    UpperLetters[CHOOSE i \in DOMAIN LowerLetters : LowerLetters[i] = c]]

\* the characters a regex \w matches
WordChars == UpperSet \cup LowerSet \cup Digits \cup {"_"}

\* str.lower() on one character
LowerChar(c) == IF c \in UpperSet THEN LowerOf[c] ELSE c

\* str.upper() on one character
UpperChar(c) == IF c \in LowerSet THEN UpperOf[c] ELSE c

\* str.lower()
Lower(text) == [i \in DOMAIN text |-> LowerChar(text[i])]

\* str.upper()
Upper(text) == [i \in DOMAIN text |-> UpperChar(text[i])]

\* text[i .. i + Len(lit) - 1] = lit
MatchesAt(text, lit, i) ==
    /\ i >= 1
    /\ i + Len(lit) - 1 <= Len(text)
    /\ \A k \in 1..Len(lit) : text[i + k - 1] = lit[k]

\* Python's `lit in text`
IsSubstring(lit, text) == \E i \in 1..(Len(text) + 1) : MatchesAt(text, lit, i)

\* whether position k of text holds a \w character (FALSE outside the text)
IsWordAt(text, k) == k >= 1 /\ k <= Len(text) /\ text[k] \in WordChars

\* regex \b between positions k and k + 1 of text (k = 0 .. Len(text))
WordBoundary(text, k) == IsWordAt(text, k) # IsWordAt(text, k + 1)

\* f"{a} {b}"
JoinSpace(a, b) == a \o <<" ">> \o b

\* words joined by single spaces
RECURSIVE JoinWords(_)
JoinWords(ws) ==
    IF Len(ws) = 0 THEN <<>>
    ELSE IF Len(ws) = 1 THEN ws[1]
    ELSE JoinSpace(ws[1], JoinWords(Tail(ws)))

-----------------------------------------------------------------------------
(* Keyword tables of app/services/policy.py.  A pattern r"\b<lit>\b" is    *)
(* [lit, opt]: opt is TRUE for r"\btimeouts?\b", whose trailing s is       *)
(* optional.                                                               *)

Kw(lit) == [lit |-> lit, opt |-> FALSE]
KwOptS(lit) == [lit |-> lit, opt |-> TRUE]

OUTAGE_KEYWORDS ==
    << Kw(<<"o", "u", "t", "a", "g", "e">>),
       Kw(<<"d", "o", "w", "n">>),
       Kw(<<"s", "e", "r", "v", "i", "c", "e", " ",
            "u", "n", "a", "v", "a", "i", "l", "a", "b", "l", "e">>),
       Kw(<<"5", "0", "0">>),
       Kw(<<"e", "r", "r", "o", "r", " ", "r", "a", "t", "e", " ",
            "s", "p", "i", "k", "e">>),
       Kw(<<"c", "a", "n", "n", "o", "t">>),
       Kw(<<"f", "a", "i", "l", "i", "n", "g">>),
       KwOptS(<<"t", "i", "m", "e", "o", "u", "t">>) >>

SECURITY_KEYWORDS ==
    << Kw(<<"s", "e", "c", "u", "r", "i", "t", "y">>),
       Kw(<<"b", "r", "e", "a", "c", "h">>),
       Kw(<<"u", "n", "a", "u", "t", "h", "o", "r", "i", "z", "e", "d">>),
       Kw(<<"l", "e", "a", "k">>),
       Kw(<<"e", "x", "f", "i", "l", "t", "r", "a", "t", "i", "o", "n">>),
       Kw(<<"e", "x", "p", "l", "o", "i", "t">>),
       Kw(<<"v", "u", "l", "n", "e", "r", "a", "b", "i", "l", "i", "t", "y">>),
       Kw(<<"c", "v", "e">>) >>

\* Confidence threshold for auto-assignment: 0.70, in thousandths
CONFIDENCE_THRESHOLD == 700

SEVERITY_ORDER == [s \in Severity |->
    CASE s = "P1" -> 1 [] s = "P2" -> 2 [] s = "P3" -> 3 [] s = "P4" -> 4]

\* re.search(r"\b<lit>\b" or r"\b<lit>s?\b", text)
RegexSearch(pattern, text) ==
    \E i \in 1..Len(text) :
        /\ WordBoundary(text, i - 1)
        /\ MatchesAt(text, pattern.lit, i)
        /\ LET end == i + Len(pattern.lit) - 1
           IN  \/ WordBoundary(text, end)
               \/ /\ pattern.opt
                  /\ MatchesAt(text, <<"s">>, end + 1)
                  /\ WordBoundary(text, end + 1)

contains_keywords(text, keywords) ==
    LET text_lower == Lower(text)
    IN  \E k \in DOMAIN keywords : RegexSearch(keywords[k], text_lower)

severity_at_least(severity, min_severity) ==
    SEVERITY_ORDER[severity] <= SEVERITY_ORDER[min_severity]

\* mutant: the cap leaves the severity as it is
cap_severity_lenient(severity, max_severity) == severity

cap_severity(severity, max_severity) ==
    IF SEVERITY_ORDER[severity] < SEVERITY_ORDER[max_severity]
    THEN max_severity
    ELSE severity

raise_severity(severity, min_severity) ==
    IF SEVERITY_ORDER[severity] > SEVERITY_ORDER[min_severity]
    THEN min_severity
    ELSE severity

-----------------------------------------------------------------------------
(* PolicyEngine.apply_policies.  The running pair (final_severity,         *)
(* override_reason) is threaded through the rules in the order of the code. *)

\* f"Non-production environment ({env}) capped to P3"
NonProdReason(env) == <<"Non-production environment", env, "capped to P3">>
OutageReason == <<"Production outage keywords detected, raised to P2">>
SecurityReason == <<"Production security keywords detected, set to P1">>

\* f"{incident.summary} {incident.description}"
searchable_text(inc) == JoinSpace(inc.summary, inc.description)

\* mutant: every non-prod incident is set to P3
policy_non_prod_cap_floor(inc, st) ==
    [final_severity |-> "P3",
     override_reason |-> Some(NonProdReason(inc.environment))]

\* Policy 1: non-prod environments max at P3 (the `if` branch)
policy_non_prod_cap(inc, st) ==
    IF SEVERITY_ORDER[st.final_severity] < SEVERITY_ORDER["P3"]
    THEN [final_severity |-> cap_severity(st.final_severity, "P3"),
          override_reason |-> Some(NonProdReason(inc.environment))]
    ELSE st

\* mutant: the floor sets P2 whatever the current severity (it also lowers)
policy_prod_outage_lowering(inc, st) ==
    IF contains_keywords(searchable_text(inc), OUTAGE_KEYWORDS)
    THEN [final_severity |-> "P2", override_reason |-> Some(OutageReason)]
    ELSE st

\* Policy 2: prod + outage keywords => min P2
policy_prod_outage(inc, st) ==
    IF /\ contains_keywords(searchable_text(inc), OUTAGE_KEYWORDS)
       /\ SEVERITY_ORDER[st.final_severity] > SEVERITY_ORDER["P2"]
    THEN [final_severity |-> raise_severity(st.final_severity, "P2"),
          override_reason |-> Some(OutageReason)]
    ELSE st

\* mutant: `elif`: the security rule is skipped once an earlier rule fired
policy_prod_security_elif(inc, st) ==
    IF /\ st.override_reason = NULL
       /\ contains_keywords(searchable_text(inc), SECURITY_KEYWORDS)
    THEN [final_severity |-> "P1", override_reason |-> Some(SecurityReason)]
    ELSE st

\* mutant: the security rule never fires
policy_prod_security_never(inc, st) == st

\* Policy 3: prod + security keywords => P1
policy_prod_security(inc, st) ==
    IF contains_keywords(searchable_text(inc), SECURITY_KEYWORDS)
    THEN [final_severity |-> "P1", override_reason |-> Some(SecurityReason)]
    ELSE st

\* mutant: the gate also flags a confidence equal to the threshold
confidence_gate_inclusive(llm) == llm.confidence <= CONFIDENCE_THRESHOLD

\* Policy 4: low confidence => human review
confidence_gate(llm) == llm.confidence < CONFIDENCE_THRESHOLD

\* mutant: the sev label names the LLM's severity
build_labels_original(llm, final_severity, needs_human_review) ==
    <<  <<"autopilot">>,
        <<"type", llm.incident_type>>,
        <<"sev", llm.severity>>  >>
    \o (IF needs_human_review THEN << <<"needs-review">> >> ELSE <<>>)

\* labels are f-strings "autopilot", "type:<x>", "sev:<x>", "needs-review"
build_labels(llm, final_severity, needs_human_review) ==
    <<  <<"autopilot">>,
        <<"type", llm.incident_type>>,
        <<"sev", final_severity>>  >>
    \o (IF needs_human_review THEN << <<"needs-review">> >> ELSE <<>>)

\* mutant: a verdict flagged for review is also escalated to at least P2
apply_policies_escalating(inc, llm) ==
    LET original_severity == llm.severity
        st0 == [final_severity |-> llm.severity, override_reason |-> NULL]
        st1 == IF inc.environment # PROD
               THEN policy_non_prod_cap(inc, st0)
               ELSE IF inc.environment = PROD
               THEN policy_prod_security(inc, policy_prod_outage(inc, st0))
               ELSE st0
        needs_human_review == confidence_gate(llm)
        st == IF needs_human_review
              THEN [st1 EXCEPT !.final_severity = raise_severity(@, "P2")]
              ELSE st1
    IN  [original_severity |-> original_severity,
         final_severity |-> st.final_severity,
         severity_overridden |-> original_severity # st.final_severity,
         override_reason |-> st.override_reason,
         needs_human_review |-> needs_human_review,
         confidence |-> llm.confidence,
         labels_to_add |->
             build_labels(llm, st.final_severity, needs_human_review)]

apply_policies(inc, llm) ==
    LET original_severity == llm.severity
        st0 == [final_severity |-> llm.severity, override_reason |-> NULL]
        st == IF inc.environment # PROD
              THEN policy_non_prod_cap(inc, st0)
              ELSE IF inc.environment = PROD
              THEN policy_prod_security(inc, policy_prod_outage(inc, st0))
              ELSE st0
        needs_human_review == confidence_gate(llm)
    IN  [original_severity |-> original_severity,
         final_severity |-> st.final_severity,
         severity_overridden |-> original_severity # st.final_severity,
         override_reason |-> st.override_reason,
         needs_human_review |-> needs_human_review,
         confidence |-> llm.confidence,
         labels_to_add |->
             build_labels(llm, st.final_severity, needs_human_review)]

-----------------------------------------------------------------------------
(* Inputs of the policy engine *)

W_outage == <<"o", "u", "t", "a", "g", "e">>
W_Breach == <<"B", "r", "e", "a", "c", "h">>
W_downtime == <<"d", "o", "w", "n", "t", "i", "m", "e">>
W_service == <<"s", "e", "r", "v", "i", "c", "e">>
W_unavailable == <<"u", "n", "a", "v", "a", "i", "l", "a", "b", "l", "e">>
W_timeouts == <<"t", "i", "m", "e", "o", "u", "t", "s">>

Vocabulary ==
    {W_outage, W_Breach, W_downtime, W_service, W_unavailable, W_timeouts}

\* texts of at most n vocabulary words
Texts(n) == {JoinWords(ws) : ws \in UNION {[1..k -> Vocabulary] : k \in 0..n}}

\* confidences, in thousandths, around the threshold
Confidences == {699, 700, 850}

PolicyIncidents ==
    [summary : Texts(MaxWords), description : Texts(1),
     environment : Environment]

LLMVerdicts ==
    [incident_type : IncidentType, severity : Severity,
     confidence : Confidences]

-----------------------------------------------------------------------------
(* Specification of the policy engine: one call of apply_policies on every *)
(* input.                                                                  *)

NoRequest == [op |-> "none", id |-> 0, severity |-> NULL, category |-> NULL]

WebIdle ==
    /\ web_incidents = << >>
    /\ audit_events = << >>
    /\ audit_jsonl = << >>
    /\ clock = 0
    /\ last_request = NoRequest
    /\ last_response = 0

\* the correlator at rest: an empty incidents table and no caller in flight
CorrHandlerIds == {"h1", "h2"}

IdleHandler ==
    [pc |-> "idle", incident |-> NULL, related |-> <<>>, result |-> NULL]

CorrIdle ==
    /\ incidents_table = << >>
    /\ now = 0
    /\ corr_handlers = [h \in CorrHandlerIds |-> IdleHandler]

\* the webhook service at rest: counters at zero, no request in flight;
\* requests are numbered in the order they arrive
HookHandlerIds == 1..MaxRequests

MetricNames ==
    {"webhooks_received", "webhooks_processed", "webhooks_rejected",
     "incidents_triaged", "incidents_correlated", "llm_calls", "llm_errors",
     "jira_updates", "jira_errors", "slack_posts", "slack_errors",
     "policy_overrides", "human_review_required"}

ClientIps == {"10.0.0.1"}

IdleRequest ==
    [pc |-> "idle", secret |-> NULL, ip |-> "", body |-> NULL,
     incident |-> NULL, correlation |-> NULL,
     llm_result |-> NULL, policy_result |-> NULL, effects |-> << >>,
     response |-> NULL]

HookIdle ==
    /\ metrics = [m \in MetricNames |-> 0]
    /\ rate_requests = [ip \in ClientIps |-> << >>]
    /\ hook_handlers = [w \in HookHandlerIds |-> IdleRequest]
    /\ requests_total = 0

\* no function is being called on its own, no thread is in the rate limiter;
\* the threads are numbered, one call of is_allowed each
RateThreadIds == 1..MaxCalls

IdleThread == [pc |-> "idle", ip |-> "", now |-> 0, allowed |-> NULL]

UnitIdle ==
    /\ call_args = NULL
    /\ call_result = NULL
    /\ rate_threads = [t \in RateThreadIds |-> IdleThread]
    /\ rate_lock = NULL

PolicyInit ==
    /\ incident \in PolicyIncidents
    /\ llm_result \in LLMVerdicts
    /\ policy_result = NULL
    /\ WebIdle
    /\ CorrIdle
    /\ HookIdle
    /\ UnitIdle
    /\ settings = [dry_run |-> FALSE]

ApplyPolicies ==
    /\ policy_result = NULL
    /\ policy_result' = Some(apply_policies(incident, llm_result))
    /\ UNCHANGED <<incident, llm_result, webVars, corrVars, hookVars, unitVars>>

PolicyNext == ApplyPolicies

PolicySpec == PolicyInit /\ [][PolicyNext]_vars

-----------------------------------------------------------------------------
(* Properties of the policy engine, checked under PolicySpec *)

PolicyDone == policy_result # NULL
Result == policy_result[1]
InputText == searchable_text(incident)
OutageText == contains_keywords(InputText, OUTAGE_KEYWORDS)
SecurityText == contains_keywords(InputText, SECURITY_KEYWORDS)

\* C1: for an incident whose environment is staging, dev or unknown the final
\* severity is P3 or P4: an LLM severity of P1 or P2 becomes P3, overridden,
\* with the non-production reason; P3 and P4 come back unchanged and not
\* overridden; outage and security keywords make no difference.
C1_NonProdCap ==
    (PolicyDone /\ incident.environment # PROD) =>
        /\ Result.final_severity \in {"P3", "P4"}
        /\ llm_result.severity \in {"P1", "P2"} =>
              /\ Result.final_severity = "P3"
              /\ Result.severity_overridden = TRUE
              /\ Result.override_reason # NULL
              /\ Result.override_reason[1][1] = "Non-production environment"
              /\ Result.override_reason[1][3] = "capped to P3"
        /\ llm_result.severity \in {"P3", "P4"} =>
              /\ Result.final_severity = llm_result.severity
              /\ Result.severity_overridden = FALSE

\* C1 witness: a staging P1 whose text matches outage and security keywords
\* comes back as P3.
C1_Witness ==
    /\ PolicyDone
    /\ incident.environment = STAGING
    /\ llm_result.severity = "P1"
    /\ OutageText /\ SecurityText
    /\ Result.final_severity = "P3"

\* C2: for a prod incident whose title+description matches a security
\* keyword the final severity is P1 for every LLM severity, also when an
\* outage keyword matches too.
C2_ProdSecurityP1 ==
    (PolicyDone /\ incident.environment = PROD /\ SecurityText) =>
        Result.final_severity = "P1"

\* C2 witness: a prod P4 matching both keyword families ends at P1.
C2_Witness ==
    /\ PolicyDone
    /\ incident.environment = PROD
    /\ SecurityText /\ OutageText
    /\ llm_result.severity = "P4"
    /\ Result.final_severity = "P1"

\* C3 as stated: whenever the LLM category is security and the environment
\* is prod, the final severity is P1.
C3_CategorySecurityP1 ==
    (PolicyDone /\ llm_result.incident_type = "security"
                /\ incident.environment = PROD) =>
        Result.final_severity = "P1"

\* C3 amended: for a prod incident whose LLM category is security, the final
\* severity is P1 exactly when the text matches a security keyword or the
\* LLM severity already is P1; the category alone forces nothing: without a
\* security keyword the final severity is the LLM severity, raised to P2 by
\* the outage floor when an outage keyword matches.
C3_CategoryAloneForcesNothing ==
    (PolicyDone /\ llm_result.incident_type = "security"
                /\ incident.environment = PROD) =>
        /\ (Result.final_severity = "P1") <=>
               (SecurityText \/ llm_result.severity = "P1")
        /\ ~SecurityText =>
               Result.final_severity =
                   IF OutageText /\ llm_result.severity \in {"P3", "P4"}
                   THEN "P2"
                   ELSE llm_result.severity

\* C3 witness: category security in prod, no security keyword in the text,
\* LLM severity P3: the verdict stays P3.
C3_Witness ==
    /\ PolicyDone
    /\ llm_result.incident_type = "security"
    /\ incident.environment = PROD
    /\ ~SecurityText /\ ~OutageText
    /\ llm_result.severity = "P3"
    /\ Result.final_severity = "P3"

\* C4: outage floor: for a prod incident matching an outage keyword and no
\* security keyword, P3 and P4 become P2 (overridden), P1 and P2 come back
\* unchanged (not overridden).
C4_OutageFloor ==
    (PolicyDone /\ incident.environment = PROD
                /\ OutageText /\ ~SecurityText) =>
        /\ llm_result.severity \in {"P3", "P4"} =>
              /\ Result.final_severity = "P2"
              /\ Result.severity_overridden = TRUE
        /\ llm_result.severity \in {"P1", "P2"} =>
              /\ Result.final_severity = llm_result.severity
              /\ Result.severity_overridden = FALSE

\* C4 witness: a prod P1 matching only outage keywords stays P1.
C4_Witness ==
    /\ PolicyDone
    /\ incident.environment = PROD
    /\ OutageText /\ ~SecurityText
    /\ llm_result.severity = "P1"
    /\ Result.final_severity = "P1"
    /\ Result.severity_overridden = FALSE

\* C5: needs_human_review is set iff the LLM confidence is strictly below
\* 0.70, and the label needs-review is present iff needs_human_review is set.
C5_ConfidenceGate ==
    PolicyDone =>
        /\ Result.needs_human_review <=> (llm_result.confidence < 700)
        /\ (<<"needs-review">> \in Range(Result.labels_to_add))
               <=> Result.needs_human_review

\* C5 witness: a confidence of exactly 0.70 is not flagged.
C5_Witness ==
    /\ PolicyDone
    /\ llm_result.confidence = 700
    /\ Result.needs_human_review = FALSE
    /\ <<"needs-review">> \notin Range(Result.labels_to_add)

\* C6: the verdict for the same incident and an LLM verdict that differs only
\* in confidence has the same final severity, overridden flag and reason.
C6_ConfidenceOrthogonal ==
    PolicyDone =>
        \A c \in Confidences :
            LET other == apply_policies(incident,
                                        [llm_result EXCEPT !.confidence = c])
            IN  /\ other.final_severity = Result.final_severity
                /\ other.severity_overridden = Result.severity_overridden
                /\ other.override_reason = Result.override_reason

\* C6 witness: a low-confidence verdict that is flagged for review and whose
\* severity a rule has overridden.
C6_Witness ==
    /\ PolicyDone
    /\ llm_result.confidence = 699
    /\ Result.needs_human_review
    /\ Result.severity_overridden

\* C7: labels_to_add holds autopilot, type:<LLM category> and
\* sev:<final severity>; every sev label names the final severity, so an
\* overridden verdict carries no sev label of the original severity.
C7_Labels ==
    PolicyDone =>
        LET labels == Range(Result.labels_to_add)
        IN  /\ <<"autopilot">> \in labels
            /\ <<"type", llm_result.incident_type>> \in labels
            /\ <<"sev", Result.final_severity>> \in labels
            /\ \A l \in labels :
                   l[1] = "sev" => l[2] = Result.final_severity
            /\ Result.severity_overridden =>
                   <<"sev", Result.original_severity>> \notin labels

\* C7 witness: an overridden verdict (P4 raised to P2).
C7_Witness ==
    /\ PolicyDone
    /\ Result.severity_overridden
    /\ Result.original_severity = "P4"
    /\ Result.final_severity = "P2"
    /\ <<"sev", "P2">> \in Range(Result.labels_to_add)

-----------------------------------------------------------------------------
(* MockProvider.triage of app/services/llm_client.py: plain substring      *)
(* search of the lower-cased title and description.                        *)

MOCK_DEPLOYMENT_KEYWORDS ==
    << <<"d", "e", "p", "l", "o", "y">>,
       <<"r", "e", "l", "e", "a", "s", "e">>,
       <<"r", "o", "l", "l", "o", "u", "t">>,
       <<"c", "i", "/", "c", "d">> >>

MOCK_DATABASE_KEYWORDS ==
    << <<"d", "a", "t", "a", "b", "a", "s", "e">>,
       <<"d", "b">>,
       <<"s", "q", "l">>,
       <<"q", "u", "e", "r", "y">>,
       <<"p", "o", "s", "t", "g", "r", "e", "s">>,
       <<"m", "y", "s", "q", "l">> >>

MOCK_NETWORK_KEYWORDS ==
    << <<"n", "e", "t", "w", "o", "r", "k">>,
       <<"d", "n", "s">>,
       <<"l", "o", "a", "d", " ", "b", "a", "l", "a", "n", "c", "e", "r">>,
       <<"c", "o", "n", "n", "e", "c", "t", "i", "v", "i", "t", "y">>,
       <<"t", "i", "m", "e", "o", "u", "t">> >>

MOCK_SECURITY_KEYWORDS ==
    << <<"s", "e", "c", "u", "r", "i", "t", "y">>,
       <<"b", "r", "e", "a", "c", "h">>,
       <<"u", "n", "a", "u", "t", "h", "o", "r", "i", "z", "e", "d">>,
       <<"v", "u", "l", "n", "e", "r", "a", "b", "i", "l", "i", "t", "y">> >>

MOCK_INFRASTRUCTURE_KEYWORDS ==
    << <<"i", "n", "f", "r", "a", "s", "t", "r", "u", "c", "t", "u", "r", "e">>,
       <<"s", "e", "r", "v", "e", "r">>,
       <<"v", "m">>,
       <<"c", "l", "o", "u", "d">>,
       <<"a", "w", "s">>,
       <<"g", "c", "p">> >>

MOCK_P1_KEYWORDS ==
    << <<"s", "e", "c", "u", "r", "i", "t", "y">>,
       <<"b", "r", "e", "a", "c", "h">>,
       <<"c", "r", "i", "t", "i", "c", "a", "l">>,
       <<"p", "1">> >>

MOCK_P2_KEYWORDS ==
    << <<"o", "u", "t", "a", "g", "e">>,
       <<"d", "o", "w", "n">>,
       <<"5", "0", "0">>,
       <<"c", "a", "n", "n", "o", "t">>,
       <<"f", "a", "i", "l", "i", "n", "g">> >>

MOCK_P3_KEYWORDS ==
    << <<"d", "e", "g", "r", "a", "d", "e", "d">>,
       <<"s", "l", "o", "w">>,
       <<"i", "n", "t", "e", "r", "m", "i", "t", "t", "e", "n", "t">> >>

\* the mock's fixed confidence 0.85, in thousandths
MOCK_CONFIDENCE == 850

\* any(kw in combined for kw in keywords)
any_in(keywords, combined) ==
    \E k \in DOMAIN keywords : IsSubstring(keywords[k], combined)

MockProvider_triage(inc) ==
    LET combined == JoinSpace(Lower(inc.summary), Lower(inc.description))
        incident_type ==
            IF any_in(MOCK_DEPLOYMENT_KEYWORDS, combined) THEN "deployment"
            ELSE IF any_in(MOCK_DATABASE_KEYWORDS, combined) THEN "database"
            ELSE IF any_in(MOCK_NETWORK_KEYWORDS, combined) THEN "network"
            ELSE IF any_in(MOCK_SECURITY_KEYWORDS, combined) THEN "security"
            ELSE IF any_in(MOCK_INFRASTRUCTURE_KEYWORDS, combined)
                 THEN "infrastructure"
            ELSE "application"
        owner_team ==
            CASE incident_type = "deployment" -> "platform"
              [] incident_type = "database" -> "data-platform"
              [] incident_type = "network" -> "infrastructure"
              [] incident_type = "security" -> "security"
              [] incident_type = "infrastructure" -> "infrastructure"
              [] OTHER -> "engineering"
        severity ==
            IF any_in(MOCK_P1_KEYWORDS, combined) THEN "P1"
            ELSE IF any_in(MOCK_P2_KEYWORDS, combined) THEN "P2"
            ELSE IF any_in(MOCK_P3_KEYWORDS, combined) THEN "P3"
            ELSE "P4"
    IN  [incident_type |-> incident_type,
         severity |-> severity,
         confidence |-> MOCK_CONFIDENCE,
         owner_team |-> owner_team]

-----------------------------------------------------------------------------
(* calculate_risk_score of app/services/risk.py.  Weights and confidence   *)
(* are in thousandths; the score is in ten-thousandths (1.0 is 10000).     *)

SEVERITY_WEIGHTS == [s \in Severity |->
    CASE s = "P1" -> 1000 [] s = "P2" -> 750 [] s = "P3" -> 500
      [] s = "P4" -> 250]

ENVIRONMENT_WEIGHTS == [e \in Environment |->
    CASE e = PROD -> 1000 [] e = STAGING -> 500 [] e = DEV -> 250
      [] e = UNKNOWN -> 500]

RiskOne == 10000

Min(a, b) == IF a < b THEN a ELSE b
Max(a, b) == IF a > b THEN a ELSE b

calculate_risk_score_direct(severity, confidence, environment) ==
    LET severity_weight == SEVERITY_WEIGHTS[severity]
        env_weight == ENVIRONMENT_WEIGHTS[environment]
        risk == (severity_weight * 4) + (confidence * 3) + (env_weight * 3)
    IN  Max(0, Min(RiskOne, risk))

calculate_risk_score(severity, confidence, environment) ==
    LET severity_weight == SEVERITY_WEIGHTS[severity]
        confidence_inverse == 1000 - confidence
        env_weight == ENVIRONMENT_WEIGHTS[environment]
        risk == (severity_weight * 4) + (confidence_inverse * 3)
                + (env_weight * 3)
    IN  Max(0, Min(RiskOne, risk))

-----------------------------------------------------------------------------
(* The web-UI incident handlers of app/routers/incidents.py.               *)
(*                                                                         *)
(* A row of web_incidents holds the columns of the table; triage_json is   *)
(* NULL or Some(TriageResult).  Of a TriageResult the model keeps the      *)
(* fields the handlers read or rewrite by value (category, severity,       *)
(* confidence, risk score, owner team, review flag, override reason); the  *)
(* summary, action list and runbook entries are left out, as are the       *)
(* component and reporter columns, which create_incident writes and no     *)
(* handler rewrites.  One handler run is one step; all its utcnow() reads  *)
(* see the same tick.                                                      *)

\* ids handed out by create_incident, in order of creation
IncidentIds == 1..MaxIncidents

\* Severity(name) and IncidentType(name): the enum member of that value
SeverityNames == [s \in Severity |->
    CASE s = "P1" -> <<"P", "1">> [] s = "P2" -> <<"P", "2">>
      [] s = "P3" -> <<"P", "3">> [] s = "P4" -> <<"P", "4">>]

IncidentTypeNames == [t \in IncidentType |->
    CASE t = "deployment" ->
             <<"d", "e", "p", "l", "o", "y", "m", "e", "n", "t">>
      [] t = "database" -> <<"d", "a", "t", "a", "b", "a", "s", "e">>
      [] t = "network" -> <<"n", "e", "t", "w", "o", "r", "k">>
      [] t = "application" ->
             <<"a", "p", "p", "l", "i", "c", "a", "t", "i", "o", "n">>
      [] t = "security" -> <<"s", "e", "c", "u", "r", "i", "t", "y">>
      [] t = "infrastructure" ->
             <<"i", "n", "f", "r", "a", "s", "t", "r", "u", "c", "t", "u",
               "r", "e">>
      [] t = "unknown" -> <<"u", "n", "k", "n", "o", "w", "n">>]

\* Severity(text): NULL stands for the ValueError
ParseSeverity(text) ==
    IF \E s \in Severity : SeverityNames[s] = text
    THEN Some(CHOOSE s \in Severity : SeverityNames[s] = text)
    ELSE NULL

\* IncidentType(text): NULL stands for the ValueError
ParseIncidentType(text) ==
    IF \E t \in IncidentType : IncidentTypeNames[t] = text
    THEN Some(CHOOSE t \in IncidentType : IncidentTypeNames[t] = text)
    ELSE NULL

\* an Optional[str] request field is truthy when present and not empty
Truthy(opt) == opt # NULL /\ opt[1] # <<>>

\* _run_triage
run_triage(title, description, environment) ==
    LET normalized == [summary |-> title, description |-> description,
                       environment |-> environment]
        llm == MockProvider_triage(normalized)
        policy == apply_policies(normalized, llm)
        risk_score == calculate_risk_score(policy.final_severity,
                                            llm.confidence, environment)
    IN  [incident_type |-> llm.incident_type,
         severity |-> policy.final_severity,
         confidence |-> llm.confidence,
         risk_score |-> risk_score,
         owner_team |-> llm.owner_team,
         needs_human_review |-> policy.needs_human_review,
         policy_override_reason |-> policy.override_reason]

\* Requests of the web UI
W_login == <<"l", "o", "g", "i", "n">>

\* IncidentCreate: a title of at least 5 and a description of at least 10
\* characters, and an environment
IncidentCreates ==
    { [title |-> W_Breach, description |-> W_unavailable,
       environment |-> STAGING],
      [title |-> W_Breach, description |-> W_unavailable,
       environment |-> PROD],
      [title |-> W_login,
       description |-> JoinSpace(W_service, W_unavailable),
       environment |-> PROD],
      [title |-> W_login, description |-> W_unavailable,
       environment |-> UNKNOWN] }

\* OverrideRequest: severity and category are optional strings
OverrideSeverities == {NULL, Some(<<"p", "1">>), Some(<<"P", "9">>)}
OverrideCategories ==
    {NULL, Some(<<"S", "e", "c", "u", "r", "i", "t", "y">>),
     Some(<<"b", "o", "g", "u", "s">>)}
OverrideRequests ==
    [severity : OverrideSeverities, category : OverrideCategories,
     reason : {"human reason"}]
ResolveRequests == [resolution_note : {"fixed"}]

\* _run_triage on every incident the web UI can create, computed once
TriageTable ==
    [c \in IncidentCreates |->
        run_triage(c.title, c.description, c.environment)]

\* AuditService.log: one event appended to the audit_events table
AuditEvent(event_type, id, severity, action, status) ==
    [timestamp |-> clock, event_type |-> event_type, jira_key |-> id,
     severity |-> severity, action |-> action, status |-> status]

\* mutant: the row of the same incident key is rewritten in place
write_sinks_upsert(event, db_fails, jsonl_fails) ==
    /\ audit_events' =
           IF \E k \in DOMAIN audit_events :
                  audit_events[k].jira_key = event.jira_key
           THEN [k \in DOMAIN audit_events |->
                    IF audit_events[k].jira_key = event.jira_key
                    THEN event ELSE audit_events[k]]
           ELSE Append(audit_events, event)
    /\ audit_jsonl' = Append(audit_jsonl, event)

\* mutant: the store write is not guarded, its failure ends the call
write_sinks_unguarded(event, db_fails, jsonl_fails) ==
    /\ audit_events' =
           IF db_fails THEN audit_events ELSE Append(audit_events, event)
    /\ audit_jsonl' =
           IF db_fails \/ jsonl_fails THEN audit_jsonl
           ELSE Append(audit_jsonl, event)

\* audit.py 52-62: the event is inserted into the audit_events table, then
\* appended to the JSONL file, each inside its own try; a sink that fails
\* writes nothing (the insert is rolled back)
write_sinks(event, db_fails, jsonl_fails) ==
    /\ audit_events' =
           IF db_fails THEN audit_events ELSE Append(audit_events, event)
    /\ audit_jsonl' =
           IF jsonl_fails THEN audit_jsonl ELSE Append(audit_jsonl, event)

\* AuditService.log as the web-UI handlers use it, both sinks working
audit_log(event) ==
    /\ Len(audit_events) < MaxAudit
    /\ write_sinks(event, FALSE, FALSE)

\* _update_incident: the named columns and updated_at are rewritten
update_incident(id, row) ==
    web_incidents' =
        [web_incidents EXCEPT ![id] = [row EXCEPT !.updated_at = clock]]

Request(op, id) == [op |-> op, id |-> id, severity |-> NULL, category |-> NULL]

\* mutant: a refused request is audited
Refuse_audited(request, code) ==
    /\ last_request' = request
    /\ last_response' = code
    /\ audit_log(AuditEvent("request_refused", request.id, NULL, request.op,
                            "failure"))
    /\ UNCHANGED <<web_incidents, clock>>

\* a request refused with an HTTPException before anything is written
Refuse(request, code) ==
    /\ last_request' = request
    /\ last_response' = code
    /\ UNCHANGED <<web_incidents, audit_events, audit_jsonl, clock>>

\* a request answered 200
Answer(request) ==
    /\ last_request' = request
    /\ last_response' = 200
    /\ clock' = clock + 1

\* _get_incident_row raises 404 for an id that is not in the table
Known(id) == id \in DOMAIN web_incidents

\* POST /api/incidents
create_incident(title, description, environment) ==
    LET id == Cardinality(DOMAIN web_incidents) + 1
        row == [title |-> title, description |-> description,
                environment |-> environment, status |-> "pending",
                created_at |-> clock, updated_at |-> clock,
                triage_json |-> NULL, decision_by |-> NULL,
                decision_at |-> NULL, decision_note |-> NULL,
                original_severity |-> NULL]
    IN  /\ id \in IncidentIds
        /\ audit_log(AuditEvent("incident_created", id, NULL,
                                "create_incident", "success"))
        /\ web_incidents' = web_incidents @@ (id :> row)
        /\ Answer(Request("create", id))

\* POST /api/incidents/{id}/triage; `raises` is _run_triage raising (it does
\* when the runbook catalog cannot be loaded: match_runbooks indexes an empty
\* list)
triage_incident(id, raises) ==
    IF ~Known(id) THEN Refuse(Request("triage", id), 404)
    ELSE IF raises
    THEN /\ audit_log(AuditEvent("incident_triage_failed", id, NULL,
                                 "ai_triage", "failure"))
         /\ last_request' = Request("triage", id)
         /\ last_response' = 500
         /\ clock' = clock + 1
         /\ UNCHANGED web_incidents
    ELSE LET row == web_incidents[id]
             triage == TriageTable[[title |-> row.title,
                                    description |-> row.description,
                                    environment |-> row.environment]]
         IN  /\ update_incident(id, [row EXCEPT
                                        !.status = "triaged",
                                        !.triage_json = Some(triage)])
             /\ audit_log(AuditEvent("incident_triaged", id,
                                     Some(triage.severity), "ai_triage",
                                     "success"))
             /\ Answer(Request("triage", id))

\* mutant: approve does not check that the incident has been triaged
approve_incident_unchecked(id) ==
    IF ~Known(id) THEN Refuse(Request("approve", id), 404)
    ELSE LET row == web_incidents[id]
         IN  /\ update_incident(id, [row EXCEPT
                    !.status = "approved",
                    !.decision_by = Some("web-user"),
                    !.decision_at = Some(clock),
                    !.decision_note = Some("Approved via web UI")])
             /\ audit_log(AuditEvent("incident_approved", id, NULL,
                                     "approve", "success"))
             /\ Answer(Request("approve", id))

\* POST /api/incidents/{id}/approve
approve_incident(id) ==
    IF ~Known(id) THEN Refuse(Request("approve", id), 404)
    ELSE LET row == web_incidents[id]
         IN  IF row.triage_json = NULL
             THEN Refuse(Request("approve", id), 400)
             ELSE /\ update_incident(id, [row EXCEPT
                         !.status = "approved",
                         !.decision_by = Some("web-user"),
                         !.decision_at = Some(clock),
                         !.decision_note = Some("Approved via web UI")])
                  /\ audit_log(AuditEvent("incident_approved", id,
                                          Some(row.triage_json[1].severity),
                                          "approve", "success"))
                  /\ Answer(Request("approve", id))

\* POST /api/incidents/{id}/override; req is an OverrideRequest
override_incident(id, req) ==
    LET request == [op |-> "override", id |-> id,
                    severity |-> req.severity, category |-> req.category]
    IN
    IF ~Known(id) THEN Refuse(request, 404)
    ELSE
    LET row == web_incidents[id] IN
    IF row.triage_json = NULL THEN Refuse(request, 400)
    ELSE
    LET triage_data == row.triage_json[1]
        original_severity == triage_data.severity
        new_sev == IF Truthy(req.severity)
                   THEN ParseSeverity(Upper(req.severity[1]))
                   ELSE NULL
        new_cat == IF Truthy(req.category)
                   THEN ParseIncidentType(Lower(req.category[1]))
                   ELSE NULL
        data1 == IF Truthy(req.severity) /\ new_sev # NULL
                 THEN [triage_data EXCEPT
                          !.severity = new_sev[1],
                          !.risk_score = calculate_risk_score(
                              new_sev[1], triage_data.confidence,
                              row.environment)]
                 ELSE triage_data
        data2 == IF Truthy(req.category) /\ new_cat # NULL
                 THEN [data1 EXCEPT !.incident_type = new_cat[1]]
                 ELSE data1
    IN
    IF Truthy(req.severity) /\ new_sev = NULL THEN Refuse(request, 400)
    ELSE IF Truthy(req.category) /\ new_cat = NULL THEN Refuse(request, 400)
    ELSE /\ update_incident(id, [row EXCEPT
                !.status = "overridden",
                !.triage_json = Some(data2),
                !.decision_by = Some("web-user"),
                !.decision_at = Some(clock),
                !.decision_note = Some(req.reason),
                !.original_severity = Some(original_severity)])
         /\ audit_log(AuditEvent("incident_overridden", id,
                                 Some(data2.severity), "override",
                                 "success"))
         /\ Answer(request)

\* POST /api/incidents/{id}/resolve; req is a ResolveRequest
resolve_incident(id, req) ==
    IF ~Known(id) THEN Refuse(Request("resolve", id), 404)
    ELSE LET row == web_incidents[id]
         IN  /\ update_incident(id, [row EXCEPT
                    !.status = "resolved",
                    !.decision_by = Some("web-user"),
                    !.decision_at = Some(clock),
                    !.decision_note = Some(req.resolution_note)])
             /\ audit_log(AuditEvent(
                    "incident_resolved", id,
                    IF row.triage_json # NULL
                    THEN Some(row.triage_json[1].severity) ELSE NULL,
                    "resolve", "success"))
             /\ Answer(Request("resolve", id))

-----------------------------------------------------------------------------
(* Specification of the web-UI handlers: any sequence of requests *)

PolicyIdle ==
    /\ incident = [summary |-> <<>>, description |-> <<>>,
                   environment |-> UNKNOWN]
    /\ llm_result = [incident_type |-> "unknown", severity |-> "P4",
                     confidence |-> 0]
    /\ policy_result = NULL

WebInit ==
    /\ WebIdle
    /\ PolicyIdle
    /\ CorrIdle
    /\ HookIdle
    /\ UnitIdle
    /\ settings = [dry_run |-> FALSE]

CreateIncident ==
    /\ \E c \in IncidentCreates :
           create_incident(c.title, c.description, c.environment)
    /\ UNCHANGED <<policyVars, corrVars, hookVars, unitVars>>

TriageIncident ==
    /\ \E id \in IncidentIds, raises \in BOOLEAN : triage_incident(id, raises)
    /\ UNCHANGED <<policyVars, corrVars, hookVars, unitVars>>

ApproveIncident ==
    /\ \E id \in IncidentIds : approve_incident(id)
    /\ UNCHANGED <<policyVars, corrVars, hookVars, unitVars>>

OverrideIncident ==
    /\ \E id \in IncidentIds, req \in OverrideRequests :
           override_incident(id, req)
    /\ UNCHANGED <<policyVars, corrVars, hookVars, unitVars>>

ResolveIncident ==
    /\ \E id \in IncidentIds, req \in ResolveRequests :
           resolve_incident(id, req)
    /\ UNCHANGED <<policyVars, corrVars, hookVars, unitVars>>

WebNext ==
    \/ CreateIncident
    \/ TriageIncident
    \/ ApproveIncident
    \/ OverrideIncident
    \/ ResolveIncident

WebSpec == WebInit /\ [][WebNext]_vars

-----------------------------------------------------------------------------
(* Properties of the web-UI incident state machine, checked under WebSpec *)

Stored == DOMAIN web_incidents
StatusOf(id) == web_incidents[id].status
HasTriage(id) == web_incidents[id].triage_json # NULL

\* the transitions the state machine allows
AllowedTransitions ==
    {<<"pending", "triaged">>, <<"pending", "resolved">>,
     <<"triaged", "approved">>, <<"triaged", "rejected">>,
     <<"triaged", "overridden">>, <<"triaged", "resolved">>,
     <<"approved", "resolved">>, <<"overridden", "resolved">>,
     <<"rejected", "triaged">>, <<"rejected", "resolved">>}

\* C8: resolved is terminal: once a stored incident's status is resolved, no
\* triage, approve, override or resolve call changes it to anything else.
C8_ResolvedTerminal ==
    [][\A id \in Stored :
           StatusOf(id) = "resolved" =>
               web_incidents'[id].status = "resolved"]_vars

\* C9: every status change of a stored incident is one of the allowed
\* transitions; an approved or overridden incident only moves to resolved.
C9_AllowedTransitions ==
    [][\A id \in Stored :
           web_incidents'[id].status # StatusOf(id) =>
               <<StatusOf(id), web_incidents'[id].status>>
                   \in AllowedTransitions]_vars

\* C10 as stated: a stored incident whose status is approved, rejected,
\* overridden or resolved has a triage result.
C10_DecidedHasTriage ==
    \A id \in Stored :
        StatusOf(id) \in {"approved", "rejected", "overridden", "resolved"}
            => HasTriage(id)

\* C10 amended: a stored incident whose status is approved, rejected or
\* overridden has a triage result; a resolved one need not (resolve accepts
\* an incident that was never triaged).
C10_ApprovedOverriddenHasTriage ==
    \A id \in Stored :
        StatusOf(id) \in {"approved", "rejected", "overridden"}
            => HasTriage(id)

\* C10 witness: an approve call has been answered 200 and the incident is
\* approved with its triage result.
C10_Witness ==
    /\ last_request.op = "approve"
    /\ last_response = 200
    /\ \E id \in Stored : StatusOf(id) = "approved" /\ HasTriage(id)

OriginalSeverityOf(id) == web_incidents[id].original_severity

\* C11: once an override has recorded original_severity (the triage severity
\* that held just before the first override), no later operation, a second
\* override included, changes it.
C11_OriginalSeverityKept ==
    [][\A id \in Stored :
           OriginalSeverityOf(id) # NULL =>
               web_incidents'[id].original_severity
                   = OriginalSeverityOf(id)]_vars

\* the request handled by the step is an override carrying neither a
\* severity nor a category
OverrideCarriesNothing(request) ==
    /\ request.op = "override"
    /\ ~Truthy(request.severity)
    /\ ~Truthy(request.category)

\* C12: an override request that carries neither a new severity nor a new
\* category is rejected, and it leaves the incident's status, triage result
\* and decision fields unchanged.
C12_EmptyOverrideRejected ==
    [][OverrideCarriesNothing(last_request') =>
           /\ last_response' # 200
           /\ web_incidents' = web_incidents]_vars

-----------------------------------------------------------------------------
(* Part 3: the correlation store (app/db/database.py, table incidents) and *)
(* the correlator (app/services/correlator.py).                            *)
(*                                                                         *)
(* The incidents table is the sequence of its rows in rowid order; the     *)
(* rowid itself is never read.  Instants are minutes; created_at and the   *)
(* cutoff are compared as the ISO texts of naive datetimes, which orders   *)
(* them as instants.  The SELECT has no ORDER BY, so the store may answer  *)
(* with the matching rows in any order.                                    *)

\* str.strip(): leading and trailing whitespace removed
Whitespace == {" ", "\t", "\n"}

Strip(text) ==
    LET inked == {i \in 1..Len(text) : text[i] \notin Whitespace}
    IN  IF inked = {} THEN <<>>
        ELSE LET first == CHOOSE i \in inked : \A j \in inked : i <= j
                 last == CHOOSE i \in inked : \A j \in inked : j <= i
             IN  SubSeq(text, first, last)

\* length of the common run of a from i and b from j, inside a[..ahi-1] and
\* b[..bhi-1]
RECURSIVE CommonRun(_, _, _, _, _, _)
CommonRun(a, b, i, j, ahi, bhi) ==
    IF i < ahi /\ j < bhi /\ a[i] = b[j]
    THEN 1 + CommonRun(a, b, i + 1, j + 1, ahi, bhi)
    ELSE 0

\* SequenceMatcher.find_longest_match on a[alo..ahi-1] and b[blo..bhi-1]
\* with no junk: the longest matching block, of those the one starting
\* earliest in a, of those the one starting earliest in b
find_longest_match(a, b, alo, ahi, blo, bhi) ==
    LET starts == (alo..(ahi - 1)) \X (blo..(bhi - 1))
        size(st) == CommonRun(a, b, st[1], st[2], ahi, bhi)
        best == CHOOSE st \in starts :
                    \A other \in starts :
                        \/ size(other) < size(st)
                        \/ /\ size(other) = size(st)
                           /\ \/ st[1] < other[1]
                              \/ st[1] = other[1] /\ st[2] <= other[2]
    IN  [i |-> best[1], j |-> best[2], k |-> size(best)]

\* SequenceMatcher.get_matching_blocks: total size of the matched blocks,
\* the longest block first, then the same to its left and to its right
RECURSIVE MatchedSize(_, _, _, _, _, _)
MatchedSize(a, b, alo, ahi, blo, bhi) ==
    IF alo >= ahi \/ blo >= bhi THEN 0
    ELSE LET m == find_longest_match(a, b, alo, ahi, blo, bhi)
         IN  IF m.k = 0 THEN 0
             ELSE m.k + MatchedSize(a, b, alo, m.i, blo, m.j)
                      + MatchedSize(a, b, m.i + m.k, ahi, m.j + m.k, bhi)

\* SequenceMatcher.ratio(): 2.0 * matches / length in thousandths, rounded
\* down; 1.0 when both texts are empty
SequenceMatcher_ratio(a, b) ==
    LET length == Len(a) + Len(b)
        matches == MatchedSize(a, b, 1, Len(a) + 1, 1, Len(b) + 1)
    IN  IF length = 0 THEN 1000 ELSE (2000 * matches) \div length

\* CorrelatorService._calculate_similarity
calculate_similarity(a, b) ==
    SequenceMatcher_ratio(Strip(Lower(a)), Strip(Lower(b)))

\* CorrelatorService.similarity_threshold, in thousandths
similarity_threshold == 600

\* Settings.correlation_window_minutes
correlation_window_minutes == 30

\* NormalizedIncident values handed to the correlator: external key,
\* summary, component, environment (created_at is added at the call)
T_DB_down == <<"D", "B", " ", "d", "o", "w", "n">>
T_db_DOWN == <<" ", "d", "b", " ", "D", "O", "W", "N", " ">>
T_own == <<"o", "w", "n">>
T_API == <<"A", "P", "I">>

CorrTitles == {T_DB_down, T_db_DOWN, T_own, T_API}

\* component names; "unknown" is what extract_component gives a payload
\* without components
C_unknown == <<"u", "n", "k", "n", "o", "w", "n">>
C_payments == <<"p", "a", "y", "m", "e", "n", "t", "s">>

CorrIncidents ==
    { [jira_key |-> "INC-1", summary |-> T_DB_down,
       component |-> C_payments, environment |-> PROD],
      [jira_key |-> "INC-1", summary |-> T_DB_down,
       component |-> C_unknown, environment |-> STAGING],
      [jira_key |-> "INC-2", summary |-> T_db_DOWN,
       component |-> C_payments, environment |-> PROD],
      [jira_key |-> "INC-2", summary |-> T_DB_down,
       component |-> C_unknown, environment |-> PROD],
      [jira_key |-> "INC-3", summary |-> T_own,
       component |-> C_payments, environment |-> PROD],
      [jira_key |-> "INC-3", summary |-> T_API,
       component |-> C_payments, environment |-> PROD] }

\* the clock moves on by half an hour between calls
ClockSteps == {30}

\* _calculate_similarity on every pair of summaries, computed once
SimilarityTable ==
    [a \in CorrTitles, b \in CorrTitles |-> calculate_similarity(a, b)]

\* all orders in which the store may hand back a set of rows
Orderings(rows) ==
    {f \in [1..Cardinality(rows) -> rows] :
        \A i, j \in 1..Cardinality(rows) : f[i] = f[j] => i = j}

\* the row INSERT writes for a NormalizedIncident
IncidentRow(inc) ==
    [jira_key |-> inc.jira_key, summary |-> inc.summary,
     component |-> inc.component, environment |-> inc.environment,
     created_at |-> inc.created_at]

\* mutant: a plain INSERT, the row of the same key stays
insert_incident_plain(table, inc) == Append(table, IncidentRow(inc))

\* Database.insert_incident: INSERT OR REPLACE on the UNIQUE jira_key, the
\* row of that key (if any) is deleted and the new row gets a fresh rowid
insert_incident(table, inc) ==
    Append(SelectSeq(table, LAMBDA r : r.jira_key # inc.jira_key),
           IncidentRow(inc))

\* mutant: the query does not exclude the key of the incident asked about
find_correlated_all(component, summary, window_minutes, exclude_key) ==
    LET cutoff == now - window_minutes
        rows == {incidents_table[i] : i \in
                    {i \in DOMAIN incidents_table :
                        /\ incidents_table[i].component = component
                        /\ incidents_table[i].created_at > cutoff}}
    IN  Orderings(rows)

\* Database.find_correlated_incidents: the rows of the component created
\* after the cutoff, without the excluded key; every order they may come in.
\* The summary argument is not part of the query.
find_correlated_incidents(component, summary, window_minutes, exclude_key) ==
    LET cutoff == now - window_minutes
        rows == {incidents_table[i] : i \in
                    {i \in DOMAIN incidents_table :
                        /\ incidents_table[i].component = component
                        /\ incidents_table[i].created_at > cutoff
                        /\ exclude_key # "" =>
                               incidents_table[i].jira_key # exclude_key}}
    IN  Orderings(rows)

NoCorrelation == [is_correlated |-> FALSE, correlated_key |-> NULL]

\* mutant: a similarity of exactly the threshold does not match
check_correlation_strict(inc, related) ==
    IF inc.component = C_unknown THEN NoCorrelation
    ELSE IF related = << >> THEN NoCorrelation
    ELSE LET similar == {i \in DOMAIN related :
                            SimilarityTable[inc.summary, related[i].summary]
                                > similarity_threshold}
         IN  IF similar = {} THEN NoCorrelation
             ELSE LET first == CHOOSE i \in similar :
                                   \A j \in similar : i <= j
                  IN  [is_correlated |-> TRUE,
                       correlated_key |-> Some(related[first].jira_key)]

\* CorrelatorService.check_correlation; related is what the store answered
check_correlation(inc, related) ==
    IF inc.component = C_unknown THEN NoCorrelation
    ELSE IF related = << >> THEN NoCorrelation
    ELSE LET similar == {i \in DOMAIN related :
                            SimilarityTable[inc.summary, related[i].summary]
                                >= similarity_threshold}
         IN  IF similar = {} THEN NoCorrelation
             ELSE LET first == CHOOSE i \in similar :
                                   \A j \in similar : i <= j
                  IN  [is_correlated |-> TRUE,
                       correlated_key |-> Some(related[first].jira_key)]

\* CorrelatorService.record_incident
record_incident(inc) ==
    incidents_table' = insert_incident(incidents_table, inc)

-----------------------------------------------------------------------------
(* Specification of the correlator: callers look up, then record; calls of *)
(* different callers interleave (several workers share the database file)  *)

CorrInit ==
    /\ CorrIdle
    /\ PolicyIdle
    /\ WebIdle
    /\ HookIdle
    /\ UnitIdle
    /\ settings = [dry_run |-> FALSE]

\* webhook.py 94-96: a caller asks for the correlation of its incident
CheckCorrelation(h) ==
    /\ corr_handlers[h].pc = "idle"
    /\ \E c \in CorrIncidents :
           LET inc == [jira_key |-> c.jira_key, summary |-> c.summary,
                       component |-> c.component,
                       environment |-> c.environment, created_at |-> now]
           IN  \E related \in
                   IF inc.component = C_unknown THEN {<< >>}
                   ELSE find_correlated_incidents(
                            inc.component, inc.summary,
                            correlation_window_minutes, inc.jira_key) :
                   corr_handlers' =
                       [corr_handlers EXCEPT ![h] =
                           [pc |-> "checked", incident |-> Some(inc),
                            related |-> related,
                            result |-> Some(check_correlation(inc, related))]]
    /\ UNCHANGED <<incidents_table, now, policyVars, webVars, hookVars,
                   unitVars>>

\* webhook.py 103-104: the caller records its incident
RecordIncident(h) ==
    /\ corr_handlers[h].pc = "checked"
    /\ record_incident(corr_handlers[h].incident[1])
    /\ corr_handlers' = [corr_handlers EXCEPT ![h] = IdleHandler]
    /\ UNCHANGED <<now, policyVars, webVars, hookVars, unitVars>>

\* time passes
AdvanceClock ==
    /\ \E d \in ClockSteps : now + d <= MaxClock /\ now' = now + d
    /\ UNCHANGED <<incidents_table, corr_handlers, policyVars, webVars,
                   hookVars, unitVars>>

CorrNext ==
    \/ \E h \in CorrHandlerIds : CheckCorrelation(h)
    \/ \E h \in CorrHandlerIds : RecordIncident(h)
    \/ AdvanceClock

CorrSpec == CorrInit /\ [][CorrNext]_vars

-----------------------------------------------------------------------------
(* Properties of the correlator and its store, checked under CorrSpec *)

\* the step is a check_correlation call of caller h
Looked(h) ==
    corr_handlers[h].pc = "idle" /\ corr_handlers'[h].pc = "checked"

\* the step is a record_incident call of caller h
Recorded(h) ==
    corr_handlers[h].pc = "checked" /\ corr_handlers'[h].pc = "idle"

\* the rows of the store a lookup for inc may consider: same component,
\* created after the start of the window that ends at the lookup
InWindow(row) == row.created_at > now - correlation_window_minutes

SameComponentInWindow(inc) ==
    {i \in DOMAIN incidents_table :
        /\ incidents_table[i].component = inc.component
        /\ InWindow(incidents_table[i])}

Similar(inc, related) ==
    {i \in DOMAIN related :
        10 * SimilarityTable[inc.summary, related[i].summary] >= 6000}

\* C14: check_correlation answers (false, none) when the component is
\* "unknown" or no same-component in-window candidate has a similarity of at
\* least 0.60; otherwise (true, key) with the key of the first candidate, in
\* the order the store returned them, whose similarity is at least 0.60.
C14_FirstSimilarCandidate ==
    [][\A h \in CorrHandlerIds :
           Looked(h) =>
               LET inc == corr_handlers'[h].incident[1]
                   related == corr_handlers'[h].related
                   answer == corr_handlers'[h].result[1]
               IN  /\ inc.component # C_unknown =>
                       /\ Len(related)
                              = Cardinality(SameComponentInWindow(inc)
                                    \ {i \in DOMAIN incidents_table :
                                          incidents_table[i].jira_key
                                              = inc.jira_key})
                       /\ \A k \in DOMAIN related :
                              \E i \in SameComponentInWindow(inc) :
                                  incidents_table[i] = related[k]
                   /\ IF inc.component = C_unknown
                         \/ Similar(inc, related) = {}
                      THEN /\ ~answer.is_correlated
                           /\ answer.correlated_key = NULL
                      ELSE /\ answer.is_correlated
                           /\ \E i \in Similar(inc, related) :
                                  /\ \A j \in Similar(inc, related) : i <= j
                                  /\ answer.correlated_key
                                         = Some(related[i].jira_key)]_vars

\* C14 witness: the store returned two candidates, both at a similarity of
\* exactly 0.60, and the lookup answered with the first of them.
C14_Witness ==
    \E h \in CorrHandlerIds :
        /\ corr_handlers[h].pc = "checked"
        /\ Len(corr_handlers[h].related) = 2
        /\ \A k \in {1, 2} :
               SimilarityTable[corr_handlers[h].incident[1].summary,
                               corr_handlers[h].related[k].summary] = 600
        /\ corr_handlers[h].result[1].correlated_key
               = Some(corr_handlers[h].related[1].jira_key)

\* C15: the store holds at most one record per external key, and an insert
\* of a key leaves the store with the values of that insert for the key,
\* whichever caller wrote the key before.
C15_UpsertLastWriterWins ==
    [][/\ \A i, j \in DOMAIN incidents_table' :
              incidents_table'[i].jira_key = incidents_table'[j].jira_key
                  => i = j
       /\ \A h \in CorrHandlerIds :
              Recorded(h) =>
                  \E i \in DOMAIN incidents_table' :
                      incidents_table'[i]
                          = IncidentRow(corr_handlers[h].incident[1])]_vars

\* C15 witness: two callers raced on one key with different values; one has
\* inserted after another record was stored, the other is about to insert.
C15_Witness ==
    \E h \in CorrHandlerIds :
        /\ corr_handlers[h].pc = "checked"
        /\ Len(incidents_table) = 2
        /\ incidents_table[2].jira_key
               = corr_handlers[h].incident[1].jira_key
        /\ incidents_table[2].component
               # corr_handlers[h].incident[1].component
        /\ incidents_table[2].created_at
               = corr_handlers[h].incident[1].created_at

-----------------------------------------------------------------------------
(* Part 4: the Jira webhook (app/routers/webhook.py) with its guards       *)
(* (app/middleware/auth.py, app/middleware/rate_limit.py), the normalizer  *)
(* (app/services/normalizer.py) and the counters (app/routers/metrics.py). *)
(*                                                                         *)
(* A request runs in steps that end where the handler awaits: the body,    *)
(* the LLM, the ticketing call, the chat call.  What the code does between *)
(* two awaits is a sequence of effects (audit events, counter increments,  *)
(* the insert of the correlation record, the start of an external call),   *)
(* applied in one step and kept, in order, with the request.  Both audit   *)
(* sinks are taken to accept every event.  Payloads carry no created       *)
(* field, so created_at is utcnow().                                       *)

\* ENVIRONMENT_PATTERNS, in the order of the dict; \bpre-?prod\b is the two
\* literals it matches
ENVIRONMENT_PATTERNS ==
    << [env |-> PROD,
        patterns |-> << Kw(<<"p", "r", "o", "d">>),
                        Kw(<<"p", "r", "o", "d", "u", "c", "t", "i", "o",
                             "n">>),
                        Kw(<<"p", "r", "d">>),
                        Kw(<<"l", "i", "v", "e">>) >>],
       [env |-> STAGING,
        patterns |-> << Kw(<<"s", "t", "a", "g", "i", "n", "g">>),
                        Kw(<<"s", "t", "a", "g", "e">>),
                        Kw(<<"s", "t", "g">>),
                        Kw(<<"u", "a", "t">>),
                        Kw(<<"p", "r", "e", "-", "p", "r", "o", "d">>),
                        Kw(<<"p", "r", "e", "p", "r", "o", "d">>) >>],
       [env |-> DEV,
        patterns |-> << Kw(<<"d", "e", "v">>),
                        Kw(<<"d", "e", "v", "e", "l", "o", "p", "m", "e",
                             "n", "t">>),
                        Kw(<<"t", "e", "s", "t">>),
                        Kw(<<"q", "a">>),
                        Kw(<<"l", "o", "c", "a", "l">>),
                        Kw(<<"s", "a", "n", "d", "b", "o", "x">>) >>] >>

\* detect_environment: the first environment one of whose patterns matches
detect_environment(labels, summary, description, components) ==
    LET searchable ==
            Lower(JoinWords(<<summary, description>> \o labels \o components))
        matching == {e \in DOMAIN ENVIRONMENT_PATTERNS :
                        \E k \in DOMAIN ENVIRONMENT_PATTERNS[e].patterns :
                            RegexSearch(ENVIRONMENT_PATTERNS[e].patterns[k],
                                        searchable)}
    IN  IF matching = {} THEN UNKNOWN
        ELSE ENVIRONMENT_PATTERNS[
                 CHOOSE e \in matching : \A f \in matching : e <= f].env

\* extract_component: the name of the first component
extract_component(fields) ==
    IF fields.components # << >> THEN fields.components[1] ELSE C_unknown

W_incident == <<"i", "n", "c", "i", "d", "e", "n", "t">>

\* extract_reporter: the display name of the reporter
extract_reporter(fields) ==
    IF fields.reporter # NULL THEN fields.reporter[1] ELSE C_unknown

\* The issuetype field of a payload: an object with a name ({"name": "Bug"}),
\* an object without one (also what a missing field defaults to), an object
\* whose name is null, or a plain string
TypeObject(name) == [kind |-> "object", name |-> Some(name)]
TypeNameless == [kind |-> "object", name |-> NULL]
TypeNullName == [kind |-> "null_name", name |-> NULL]
TypeString(text) == [kind |-> "string", name |-> Some(text)]

\* normalizer.py 101-105: the lowercased name of the issue type; NULL when
\* the name is null, on which .lower() raises AttributeError
issue_type_name(issue_type) ==
    CASE issue_type.kind = "object" ->
             Some(Lower(IF issue_type.name = NULL THEN << >>
                        ELSE issue_type.name[1]))
      [] issue_type.kind = "null_name" -> NULL
      [] issue_type.kind = "string" -> Some(Lower(issue_type.name[1]))

\* an exception leaving a function
Raises(error) == Some([error |-> error])
IsRaised(result) == result # NULL /\ "error" \in DOMAIN result[1]

\* mutant: an Incident without an issue key is normalized with an empty key
normalize_fields_keyless(payload) ==
    LET fields == payload.fields
        type_name == issue_type_name(fields.issuetype)
        description == IF fields.description = NULL THEN << >>
                       ELSE fields.description[1]
    IN  IF type_name = NULL THEN Raises("AttributeError")
        ELSE IF type_name[1] # W_incident THEN NULL
        ELSE Some([jira_key |-> payload.key,
                   summary |-> fields.summary,
                   description |-> description,
                   labels |-> fields.labels,
                   component |-> extract_component(fields),
                   environment |-> detect_environment(
                       fields.labels, fields.summary, description,
                       fields.components),
                   reporter |-> extract_reporter(fields)])

\* normalize_jira_webhook without created_at: NULL for a payload that is
\* not an Incident or has no issue key; the exception for a payload on
\* which normalization raises
normalize_fields(payload) ==
    LET fields == payload.fields
        type_name == issue_type_name(fields.issuetype)
        description == IF fields.description = NULL THEN << >>
                       ELSE fields.description[1]
    IN  IF type_name = NULL THEN Raises("AttributeError")
        ELSE IF type_name[1] # W_incident THEN NULL
        ELSE IF payload.key = "" THEN NULL
        ELSE Some([jira_key |-> payload.key,
                   summary |-> fields.summary,
                   description |-> description,
                   labels |-> fields.labels,
                   component |-> extract_component(fields),
                   environment |-> detect_environment(
                       fields.labels, fields.summary, description,
                       fields.components),
                   reporter |-> extract_reporter(fields)])

\* Header values are sequences of code points (Starlette decodes header
\* bytes as latin-1); a code point of 128 or more is not ASCII
IsAscii(text) == \A i \in DOMAIN text : text[i] < 128

\* Settings.autopilot_webhook_secret the service is configured with ("s3")
autopilot_webhook_secret == <<115, 51>>

\* verify_webhook_secret: 200 stands for `return True`, 401 for the
\* HTTPException, 500 for the TypeError hmac.compare_digest raises when one
\* of two str arguments holds a non-ASCII character
verify_webhook_secret(provided_secret) ==
    IF provided_secret = NULL \/ provided_secret[1] = << >> THEN 401
    ELSE IF ~IsAscii(provided_secret[1]) \/ ~IsAscii(autopilot_webhook_secret)
    THEN 500
    ELSE IF provided_secret[1] # autopilot_webhook_secret THEN 401
    ELSE 200

\* Settings.rate_limit_window_seconds
rate_limit_window_seconds == 60

\* time.time(), in seconds
time_time == now * 60

\* mutant: a refused call is recorded too
is_allowed_recording(ip) ==
    LET cutoff == time_time - rate_limit_window_seconds
        kept == SelectSeq(rate_requests[ip], LAMBDA ts : ts > cutoff)
    IN  [allowed |-> Len(kept) < rate_limit_requests,
         requests |-> Append(kept, time_time)]

\* RateLimiter.is_allowed: the entries of the ip inside the window are kept;
\* the request is refused when there are max_requests of them, and recorded
\* otherwise
is_allowed(ip) ==
    LET cutoff == time_time - rate_limit_window_seconds
        kept == SelectSeq(rate_requests[ip], LAMBDA ts : ts > cutoff)
    IN  IF Len(kept) >= rate_limit_requests
        THEN [allowed |-> FALSE, requests |-> kept]
        ELSE [allowed |-> TRUE, requests |-> Append(kept, time_time)]

\* Requests to POST /webhook/jira: the X-AUTOPILOT-SECRET header (absent,
\* empty, right, wrong, wrong with a non-ASCII character) and the body
ProvidedSecrets ==
    {NULL, Some(<< >>), Some(<<115, 51>>), Some(<<115, 52>>),
     Some(<<115, 233>>)}

W_Bug == <<"B", "u", "g">>
W_Incident == <<"I", "n", "c", "i", "d", "e", "n", "t">>
W_prod == <<"p", "r", "o", "d">>
W_uat == <<"u", "a", "t">>

W_Ann == <<"A", "n", "n">>

\* a body that is not JSON, an issue that is not an Incident, an issue whose
\* type name is null, and two incidents of one component: a production one
\* whose text names an outage and a breach, and a staging one
NotJson == [json |-> FALSE, key |-> "", fields |-> << >>]

HookPayloads ==
    { [json |-> TRUE, key |-> "OPS-7",
       fields |-> [issuetype |-> TypeObject(W_Bug), summary |-> T_API,
                   description |-> NULL, labels |-> << >>,
                   components |-> << >>, reporter |-> NULL]],
      [json |-> TRUE, key |-> "INC-3",
       fields |-> [issuetype |-> TypeNullName, summary |-> T_API,
                   description |-> NULL, labels |-> << >>,
                   components |-> << >>, reporter |-> NULL]],
      [json |-> TRUE, key |-> "INC-1",
       fields |-> [issuetype |-> TypeObject(W_Incident),
                   summary |-> T_DB_down,
                   description |-> Some(W_Breach), labels |-> <<W_prod>>,
                   components |-> <<C_payments>>,
                   reporter |-> Some(W_Ann)]],
      [json |-> TRUE, key |-> "INC-2",
       fields |-> [issuetype |-> TypeObject(W_incident),
                   summary |-> T_db_DOWN,
                   description |-> NULL, labels |-> <<W_uat>>,
                   components |-> <<C_payments>>, reporter |-> NULL]] }

HookBodies == {NotJson} \cup HookPayloads

\* what the LLM answers: a confident P1 and an unsure P3
HookVerdicts ==
    { [incident_type |-> "database", severity |-> "P1", confidence |-> 850],
      [incident_type |-> "application", severity |-> "P3",
       confidence |-> 699] }

\* normalize_fields and apply_policies on every payload and verdict,
\* computed once
NormalizedTable == [b \in HookPayloads |-> normalize_fields(b)]

PolicyTable ==
    [b \in {p \in HookPayloads :
                NormalizedTable[p] # NULL /\ ~IsRaised(NormalizedTable[p])},
     v \in HookVerdicts |-> apply_policies(NormalizedTable[b][1], v)]

\* normalize_jira_webhook
normalize_jira_webhook(payload) ==
    IF NormalizedTable[payload] = NULL \/ IsRaised(NormalizedTable[payload])
    THEN NormalizedTable[payload]
    ELSE Some(NormalizedTable[payload][1] @@ [created_at |-> now])

\* What the handler does between two awaits, in order
AuditEffect(event_type, action, status, severity) ==
    [kind |-> "audit", name |-> event_type, action |-> action,
     status |-> status, severity |-> severity]

MetricEffect(name) ==
    [kind |-> "metric", name |-> name, action |-> "increment",
     status |-> "", severity |-> NULL]

InsertEffect ==
    [kind |-> "insert", name |-> "incidents", action |-> "insert_or_replace",
     status |-> "", severity |-> NULL]

CallEffect(service) ==
    [kind |-> "call", name |-> service, action |-> "await", status |-> "",
     severity |-> NULL]

OnlyIf(condition, effects) == IF condition THEN effects ELSE << >>

HttpResponse(code, status) == Some([code |-> code, status |-> status])

\* mutant: the correlation record is not written
effects_until_llm_unrecorded(correlation) ==
    << AuditEffect("webhook", "received", "success", NULL),
       AuditEffect("normalization", "normalized", "success", NULL) >>
    \o OnlyIf(correlation.is_correlated,
              <<MetricEffect("incidents_correlated")>>)
    \o << AuditEffect("correlation", "checked",
                      IF correlation.correlated_key # NULL
                      THEN "success" ELSE "no_match", NULL),
          MetricEffect("llm_calls"),
          CallEffect("llm") >>

\* webhook.py 74-110: the audit of receipt and normalization, the
\* correlation check and its audit, the insert of the correlation record,
\* the start of the LLM call
effects_until_llm(correlation) ==
    << AuditEffect("webhook", "received", "success", NULL),
       AuditEffect("normalization", "normalized", "success", NULL) >>
    \o OnlyIf(correlation.is_correlated,
              <<MetricEffect("incidents_correlated")>>)
    \o << AuditEffect("correlation", "checked",
                      IF correlation.correlated_key # NULL
                      THEN "success" ELSE "no_match", NULL),
          InsertEffect,
          MetricEffect("llm_calls"),
          CallEffect("llm") >>

\* mutant: a failed LLM call is counted but not audited
effects_llm_failure_unaudited == << MetricEffect("llm_errors") >>

\* webhook.py 118-132: the LLM call raised
effects_llm_failure ==
    << MetricEffect("llm_errors"),
       AuditEffect("llm_triage", "triaged", "failure", Some("unknown")) >>

\* mutant: a processed webhook is not counted as a triaged incident
effects_processed_untriaged == << MetricEffect("webhooks_processed") >>

\* webhook.py 216-218: the counters of a processed webhook
effects_processed ==
    << MetricEffect("webhooks_processed"), MetricEffect("incidents_triaged") >>

\* mutant: the human-review flag is audited before the override
effects_llm_success_review_first(llm, policy, dry_run) ==
    << AuditEffect("llm_triage", "triaged", "success", Some(llm.severity)) >>
    \o OnlyIf(policy.needs_human_review,
              << MetricEffect("human_review_required"),
                 AuditEffect("policy", "human_review_required", "flagged",
                             NULL) >>)
    \o OnlyIf(policy.severity_overridden,
              << MetricEffect("policy_overrides"),
                 AuditEffect("policy", "override", "applied",
                             Some(policy.final_severity)) >>)
    \o (IF dry_run
        THEN << AuditEffect("dry_run", "would_have_update_jira", "skipped",
                            NULL),
                AuditEffect("dry_run", "would_have_post_slack", "skipped",
                            NULL) >>
             \o effects_processed
        ELSE << CallEffect("jira") >>)

\* mutant: the ticketing call is started whatever the dry-run flag says
effects_llm_success_live(llm, policy, dry_run) ==
    << AuditEffect("llm_triage", "triaged", "success", Some(llm.severity)) >>
    \o OnlyIf(policy.severity_overridden,
              << MetricEffect("policy_overrides"),
                 AuditEffect("policy", "override", "applied",
                             Some(policy.final_severity)) >>)
    \o OnlyIf(policy.needs_human_review,
              << MetricEffect("human_review_required"),
                 AuditEffect("policy", "human_review_required", "flagged",
                             NULL) >>)
    \o << CallEffect("jira") >>

\* webhook.py 112-117 and 134-177: the LLM answered; the policy engine runs;
\* in dry-run mode the two actions are audited as skipped and the request
\* is finished, otherwise the ticketing call starts
effects_llm_success(llm, policy, dry_run) ==
    << AuditEffect("llm_triage", "triaged", "success", Some(llm.severity)) >>
    \o OnlyIf(policy.severity_overridden,
              << MetricEffect("policy_overrides"),
                 AuditEffect("policy", "override", "applied",
                             Some(policy.final_severity)) >>)
    \o OnlyIf(policy.needs_human_review,
              << MetricEffect("human_review_required"),
                 AuditEffect("policy", "human_review_required", "flagged",
                             NULL) >>)
    \o (IF dry_run
        THEN << AuditEffect("dry_run", "would_have_update_jira", "skipped",
                            NULL),
                AuditEffect("dry_run", "would_have_post_slack", "skipped",
                            NULL) >>
             \o effects_processed
        ELSE << CallEffect("jira") >>)

\* webhook.py 177-190 and 203: the ticketing call returned (ok) or raised;
\* either way the chat call starts
effects_after_jira(ok) ==
    (IF ok
     THEN << MetricEffect("jira_updates"),
             AuditEffect("jira", "updated_fields_and_comment", "success",
                         NULL) >>
     ELSE << MetricEffect("jira_errors"),
             AuditEffect("jira", "update", "failure", NULL) >>)
    \o << CallEffect("slack") >>

\* webhook.py 203-218: the chat call returned (ok) or raised
effects_after_slack(ok) ==
    (IF ok
     THEN << MetricEffect("slack_posts"),
             AuditEffect("slack", "posted", "success", NULL) >>
     ELSE << MetricEffect("slack_errors"),
             AuditEffect("slack", "posted", "failure", NULL) >>)
    \o effects_processed

\* the audit events among the effects, as rows of the audit_events table
AuditRows(effects, jira_key) ==
    LET audits == SelectSeq(effects, LAMBDA e : e.kind = "audit")
    IN  [i \in 1..Len(audits) |->
            [timestamp |-> now, event_type |-> audits[i].name,
             jira_key |-> jira_key, severity |-> audits[i].severity,
             action |-> audits[i].action, status |-> audits[i].status]]

\* mutant: the increment is written over a stale reading of the counter
Incremented_stale(effects) ==
    [m \in MetricNames |->
        IF \E i \in DOMAIN effects :
               effects[i].kind = "metric" /\ effects[i].name = m
        THEN 1
        ELSE metrics[m]]

\* increment_metric for every counter named among the effects
Incremented(effects) ==
    [m \in MetricNames |->
        metrics[m] + Cardinality({i \in DOMAIN effects :
                                     /\ effects[i].kind = "metric"
                                     /\ effects[i].name = m})]

\* the effects of one step of request w take place
Perform(w, effects, inc) ==
    /\ audit_events' =
           audit_events \o AuditRows(effects,
                                     IF inc = NULL THEN "" ELSE inc[1].jira_key)
    /\ audit_jsonl' =
           audit_jsonl \o AuditRows(effects,
                                    IF inc = NULL THEN "" ELSE inc[1].jira_key)
    /\ metrics' = Incremented(effects)
    /\ incidents_table' =
           IF \E i \in DOMAIN effects : effects[i].kind = "insert"
           THEN insert_incident(incidents_table, inc[1])
           ELSE incidents_table

\* what no step of the webhook touches
HookFrame ==
    UNCHANGED <<policyVars, web_incidents, clock, last_request,
                last_response, corr_handlers, settings, now, unitVars>>

\* request w moves on: its record is rewritten, the effects are appended
Advance(w, pc, fields, effects, response) ==
    hook_handlers' =
        [hook_handlers EXCEPT ![w] =
            [pc |-> pc, secret |-> fields.secret, ip |-> fields.ip,
             body |-> fields.body, incident |-> fields.incident,
             correlation |-> fields.correlation,
             llm_result |-> fields.llm_result,
             policy_result |-> fields.policy_result,
             effects |-> fields.effects \o effects,
             response |-> response]]

\* mutant: a request the rate limiter refuses is not counted
receive_uncounted(w, secret, ip) ==
    LET verdict == verify_webhook_secret(secret)
        limiter == is_allowed(ip)
        fresh == [IdleRequest EXCEPT !.secret = secret, !.ip = ip]
    IN  IF verdict # 200
        THEN /\ Advance(w, "done", fresh, << >>,
                        HttpResponse(verdict, "error"))
             /\ Perform(w, << >>, NULL)
             /\ UNCHANGED rate_requests
        ELSE /\ rate_requests' = [rate_requests EXCEPT ![ip] = limiter.requests]
             /\ IF ~limiter.allowed
                THEN /\ Advance(w, "done", fresh, << >>,
                                HttpResponse(429, "error"))
                     /\ Perform(w, << >>, NULL)
                ELSE /\ Advance(w, "body", fresh,
                                <<MetricEffect("webhooks_received")>>, NULL)
                     /\ Perform(w, <<MetricEffect("webhooks_received")>>,
                                NULL)

\* auth.py 12-39 and webhook.py 38-61: the secret is verified (a dependency
\* of the route), then the rate limiter is asked, then the body is awaited
receive(w, secret, ip) ==
    LET verdict == verify_webhook_secret(secret)
        limiter == is_allowed(ip)
        fresh == [IdleRequest EXCEPT !.secret = secret, !.ip = ip]
    IN  IF verdict # 200
        THEN /\ Advance(w, "done", fresh, << >>,
                        HttpResponse(verdict, "error"))
             /\ Perform(w, << >>, NULL)
             /\ UNCHANGED rate_requests
        ELSE /\ rate_requests' = [rate_requests EXCEPT ![ip] = limiter.requests]
             /\ IF ~limiter.allowed
                THEN /\ Advance(w, "done", fresh,
                                <<MetricEffect("webhooks_rejected")>>,
                                HttpResponse(429, "error"))
                     /\ Perform(w, <<MetricEffect("webhooks_rejected")>>,
                                NULL)
                ELSE /\ Advance(w, "body", fresh,
                                <<MetricEffect("webhooks_received")>>, NULL)
                     /\ Perform(w, <<MetricEffect("webhooks_received")>>,
                                NULL)

\* mutant: the correlation is decided without the rows of the store
read_body_blind(w, payload, related) ==
    LET request == [hook_handlers[w] EXCEPT !.body = Some(payload)]
        inc == normalize_jira_webhook(payload)
        correlation == check_correlation(inc[1], << >>)
        effects == effects_until_llm(correlation)
    IN  /\ Advance(w, "llm",
                   [request EXCEPT !.incident = inc,
                                   !.correlation = Some(correlation)],
                   effects, NULL)
        /\ Perform(w, effects, inc)

\* mutant: an incident whose key is already recorded is skipped
read_body_once(w, payload, related) ==
    LET request == [hook_handlers[w] EXCEPT !.body = Some(payload)]
        inc == IF payload.json THEN normalize_jira_webhook(payload) ELSE NULL
    IN  IF ~payload.json \/ IsRaised(inc)
        THEN /\ Advance(w, "done", request, << >>,
                        HttpResponse(500, "error"))
             /\ Perform(w, << >>, NULL)
        ELSE IF inc = NULL
                \/ \E i \in DOMAIN incidents_table :
                       incidents_table[i].jira_key = inc[1].jira_key
        THEN /\ Advance(w, "done", request, << >>,
                        HttpResponse(200, "skipped"))
             /\ Perform(w, << >>, NULL)
        ELSE LET correlation == check_correlation(inc[1], related)
                 effects == effects_until_llm(correlation)
             IN  /\ Advance(w, "llm",
                            [request EXCEPT !.incident = inc,
                                            !.correlation = Some(correlation)],
                            effects, NULL)
                 /\ Perform(w, effects, inc)

\* mutant: receipt is audited before the issue type is looked at
read_body_audit_first(w, payload, related) ==
    LET request == [hook_handlers[w] EXCEPT !.body = Some(payload)]
        inc == IF payload.json THEN normalize_jira_webhook(payload) ELSE NULL
        received == <<AuditEffect("webhook", "received", "success", NULL)>>
    IN  IF ~payload.json \/ IsRaised(inc)
        THEN /\ Advance(w, "done", request, << >>,
                        HttpResponse(500, "error"))
             /\ Perform(w, << >>, NULL)
        ELSE IF inc = NULL
        THEN /\ Advance(w, "done", request, received,
                        HttpResponse(200, "skipped"))
             /\ Perform(w, received, NULL)
        ELSE LET correlation == check_correlation(inc[1], related)
                 effects == effects_until_llm(correlation)
             IN  /\ Advance(w, "llm",
                            [request EXCEPT !.incident = inc,
                                            !.correlation = Some(correlation)],
                            effects, NULL)
                 /\ Perform(w, effects, inc)

\* webhook.py 59-110 and 230-237: the body has arrived.  A body that is not
\* JSON makes request.json() raise, a malformed payload makes the normalizer
\* raise: the outer handler answers 500; a payload that is not an incident
\* is skipped;
\* an incident is audited, correlated and recorded, and the LLM is called.
read_body(w, payload, related) ==
    LET request == [hook_handlers[w] EXCEPT !.body = Some(payload)]
        inc == IF payload.json THEN normalize_jira_webhook(payload) ELSE NULL
    IN  IF ~payload.json \/ IsRaised(inc)
        THEN /\ Advance(w, "done", request, << >>,
                        HttpResponse(500, "error"))
             /\ Perform(w, << >>, NULL)
        ELSE IF inc = NULL
        THEN /\ Advance(w, "done", request, << >>,
                        HttpResponse(200, "skipped"))
             /\ Perform(w, << >>, NULL)
        ELSE LET correlation == check_correlation(inc[1], related)
                 effects == effects_until_llm(correlation)
             IN  /\ Advance(w, "llm",
                            [request EXCEPT !.incident = inc,
                                            !.correlation = Some(correlation)],
                            effects, NULL)
                 /\ Perform(w, effects, inc)

\* webhook.py 108-177: the LLM call is over; llm is NULL when it raised
llm_returns(w, llm) ==
    LET request == hook_handlers[w] IN
    IF llm = NULL
    THEN /\ Advance(w, "done", request, effects_llm_failure,
                    HttpResponse(500, "error"))
         /\ Perform(w, effects_llm_failure, request.incident)
    ELSE LET policy == PolicyTable[request.body[1], llm[1]]
             effects == effects_llm_success(llm[1], policy, settings.dry_run)
             decided == [request EXCEPT !.llm_result = llm,
                                        !.policy_result = Some(policy)]
         IN  /\ IF settings.dry_run
                THEN Advance(w, "done", decided, effects,
                             HttpResponse(200, "processed"))
                ELSE Advance(w, "jira", decided, effects, NULL)
             /\ Perform(w, effects, request.incident)

\* mutant: a failed ticketing call ends the request with a 500
jira_returns_fatal(w, ok) ==
    IF ok
    THEN /\ Advance(w, "slack", hook_handlers[w], effects_after_jira(ok),
                    NULL)
         /\ Perform(w, effects_after_jira(ok), hook_handlers[w].incident)
    ELSE /\ Advance(w, "done", hook_handlers[w],
                    << MetricEffect("jira_errors"),
                       AuditEffect("jira", "update", "failure", NULL) >>,
                    HttpResponse(500, "error"))
         /\ Perform(w, << MetricEffect("jira_errors"),
                          AuditEffect("jira", "update", "failure", NULL) >>,
                    hook_handlers[w].incident)

\* webhook.py 177-203: the ticketing call is over
jira_returns(w, ok) ==
    /\ Advance(w, "slack", hook_handlers[w], effects_after_jira(ok), NULL)
    /\ Perform(w, effects_after_jira(ok), hook_handlers[w].incident)

\* webhook.py 203-228: the chat call is over
slack_returns(w, ok) ==
    /\ Advance(w, "done", hook_handlers[w], effects_after_slack(ok),
               HttpResponse(200, "processed"))
    /\ Perform(w, effects_after_slack(ok), hook_handlers[w].incident)

-----------------------------------------------------------------------------
(* Specification of the webhook: requests arrive and run, interleaved at   *)
(* the awaits, all within one minute of the clock                          *)

HookInit ==
    /\ HookIdle
    /\ UnitIdle
    /\ settings \in [dry_run : BOOLEAN]
    /\ PolicyIdle
    /\ WebIdle
    /\ CorrIdle

ReceiveWebhook(w) ==
    /\ hook_handlers[w].pc = "idle"
    /\ w = requests_total + 1
    /\ requests_total' = w
    /\ \E secret \in ProvidedSecrets, ip \in ClientIps :
           receive(w, secret, ip)
    /\ HookFrame

ReadBody(w) ==
    /\ hook_handlers[w].pc = "body"
    /\ \E payload \in HookBodies :
           LET inc == IF payload.json THEN normalize_jira_webhook(payload)
                      ELSE NULL
           IN  \E related \in
                   IF inc = NULL \/ IsRaised(inc)
                      \/ inc[1].component = C_unknown
                   THEN {<< >>}
                   ELSE find_correlated_incidents(
                            inc[1].component, inc[1].summary,
                            correlation_window_minutes, inc[1].jira_key) :
                   read_body(w, payload, related)
    /\ UNCHANGED <<rate_requests, requests_total>>
    /\ HookFrame

LLMReturns(w) ==
    /\ hook_handlers[w].pc = "llm"
    /\ \E llm \in {NULL} \cup {Some(v) : v \in HookVerdicts} :
           llm_returns(w, llm)
    /\ UNCHANGED <<rate_requests, requests_total>>
    /\ HookFrame

JiraReturns(w) ==
    /\ hook_handlers[w].pc = "jira"
    /\ \E ok \in BOOLEAN : jira_returns(w, ok)
    /\ UNCHANGED <<rate_requests, requests_total>>
    /\ HookFrame

SlackReturns(w) ==
    /\ hook_handlers[w].pc = "slack"
    /\ \E ok \in BOOLEAN : slack_returns(w, ok)
    /\ UNCHANGED <<rate_requests, requests_total>>
    /\ HookFrame

HookNext ==
    \/ \E w \in HookHandlerIds : ReceiveWebhook(w)
    \/ \E w \in HookHandlerIds : ReadBody(w)
    \/ \E w \in HookHandlerIds : LLMReturns(w)
    \/ \E w \in HookHandlerIds : JiraReturns(w)
    \/ \E w \in HookHandlerIds : SlackReturns(w)

HookSpec == HookInit /\ [][HookNext]_vars

-----------------------------------------------------------------------------
(* Properties of the webhook, checked under HookSpec *)

\* the step receives request w
Arrives(w) == hook_handlers[w].pc = "idle" /\ hook_handlers'[w].pc # "idle"

\* the X-AUTOPILOT-SECRET header is missing or is not the configured secret
FailsAuthentication(secret) ==
    secret = NULL \/ secret[1] # autopilot_webhook_secret

\* the effects of request w that start an external call
CallsOf(request) ==
    {i \in DOMAIN request.effects : request.effects[i].kind = "call"}

\* the audit events of request w
AuditsOf(request) ==
    {i \in DOMAIN request.effects : request.effects[i].kind = "audit"}

Responded(request, code, status) ==
    /\ request.pc = "done"
    /\ request.response = Some([code |-> code, status |-> status])

\* C16: a request whose secret is missing or wrong is answered 401 and runs
\* nothing: the rate limiter, the counters, the audit trail and the
\* correlation store are as before, and no LLM call is made.
C16_AuthFailureIs401AndInert ==
    [][\A w \in HookHandlerIds :
           (Arrives(w) /\ FailsAuthentication(hook_handlers'[w].secret)) =>
               /\ hook_handlers'[w].pc = "done"
               /\ hook_handlers'[w].response[1].code = 401
               /\ CallsOf(hook_handlers'[w]) = {}
               /\ UNCHANGED <<rate_requests, metrics, audit_events,
                              incidents_table>>]_vars

\* the rate limiter has no room left for the client at this instant
RateLimitReached(ip) ==
    Cardinality({i \in DOMAIN rate_requests[ip] :
                    rate_requests[ip][i] + rate_limit_window_seconds
                        > time_time})
        >= rate_limit_requests

\* C17: an authenticated request the rate limiter refuses is answered 429;
\* webhooks_rejected goes up by one and no other counter moves; no audit
\* event, no correlation record, no LLM, ticketing or chat call.
C17_RateLimited429 ==
    [][\A w \in HookHandlerIds :
           (/\ Arrives(w)
            /\ ~FailsAuthentication(hook_handlers'[w].secret)
            /\ RateLimitReached(hook_handlers'[w].ip)) =>
               /\ Responded(hook_handlers'[w], 429, "error")
               /\ metrics' = [metrics EXCEPT !.webhooks_rejected = @ + 1]
               /\ CallsOf(hook_handlers'[w]) = {}
               /\ UNCHANGED <<audit_events, incidents_table>>]_vars

\* C17 witness: a request has been answered 429 and counted as rejected.
C17_Witness ==
    \E w \in HookHandlerIds :
        /\ Responded(hook_handlers[w], 429, "error")
        /\ metrics.webhooks_rejected = 1

\* the step reads the body of request w
BodyRead(w) == hook_handlers[w].pc = "body" /\ hook_handlers'[w].pc # "body"

\* the body is JSON and its issue type is not Incident
NotAnIncident(payload) ==
    /\ payload.json
    /\ issue_type_name(payload.fields.issuetype) # NULL
    /\ issue_type_name(payload.fields.issuetype)[1] # W_incident

\* C18: a payload that is not an incident is answered 200 with status
\* skipped; no audit event, no correlation record, no LLM, ticketing or
\* chat call.
C18_NonIncidentSkipped ==
    [][\A w \in HookHandlerIds :
           (BodyRead(w) /\ NotAnIncident(hook_handlers'[w].body[1])) =>
               /\ Responded(hook_handlers'[w], 200, "skipped")
               /\ CallsOf(hook_handlers'[w]) = {}
               /\ AuditsOf(hook_handlers'[w]) = {}
               /\ UNCHANGED <<audit_events, incidents_table>>]_vars

\* C18 witness: a request with a Bug payload has been answered as skipped.
C18_Witness ==
    \E w \in HookHandlerIds :
        /\ Responded(hook_handlers[w], 200, "skipped")
        /\ NotAnIncident(hook_handlers[w].body[1])

\* the step ends the LLM call of request w with an error
LLMFailed(w) ==
    /\ hook_handlers[w].pc = "llm"
    /\ hook_handlers'[w].pc # "llm"
    /\ hook_handlers'[w].llm_result = NULL

\* C19: when the LLM call fails, the ingest writes one audit event, an
\* llm_triage event with status failure, counts one llm_error and nothing
\* as processed, answers 500 and does nothing more: no policy, jira, slack
\* or dry_run event, no ticketing or chat call.
C19_LLMFailureAborts ==
    [][\A w \in HookHandlerIds :
           /\ LLMFailed(w) =>
                  /\ Responded(hook_handlers'[w], 500, "error")
                  /\ Len(audit_events') = Len(audit_events) + 1
                  /\ LET written == audit_events'[Len(audit_events')]
                     IN  /\ written.event_type = "llm_triage"
                         /\ written.status = "failure"
                         /\ written.jira_key
                                = hook_handlers[w].incident[1].jira_key
                  /\ SubSeq(audit_events', 1, Len(audit_events))
                         = audit_events
                  /\ metrics' = [metrics EXCEPT !.llm_errors = @ + 1]
                  /\ CallsOf(hook_handlers'[w]) = CallsOf(hook_handlers[w])
           /\ (hook_handlers[w].pc = "done"
               /\ hook_handlers[w].response[1].code = 500) =>
                  /\ hook_handlers'[w] = hook_handlers[w]
                  /\ \A i \in DOMAIN hook_handlers[w].effects :
                         LET e == hook_handlers[w].effects[i]
                         IN  /\ e.kind = "audit" =>
                                    e.name \notin {"policy", "jira", "slack",
                                                   "dry_run"}
                             /\ e.kind = "call" =>
                                    e.name \notin {"jira", "slack"}
                             /\ e.kind = "metric" =>
                                    e.name # "webhooks_processed"]_vars

\* C19 witness: a request whose LLM call was started has been answered 500
\* and an llm_triage failure is in the audit trail.
C19_Witness ==
    \E w \in HookHandlerIds :
        /\ Responded(hook_handlers[w], 500, "error")
        /\ \E i \in CallsOf(hook_handlers[w]) :
               hook_handlers[w].effects[i].name = "llm"
        /\ \E k \in DOMAIN audit_events :
               /\ audit_events[k].event_type = "llm_triage"
               /\ audit_events[k].status = "failure"
        /\ metrics.llm_errors = 1

\* positions in the effects of a request
JiraFailureAudits(request) ==
    {i \in AuditsOf(request) :
        /\ request.effects[i].name = "jira"
        /\ request.effects[i].status = "failure"}

Calls(request, service) ==
    {i \in CallsOf(request) : request.effects[i].name = service}

\* C20: a ticketing failure is audited as a jira event with status failure,
\* the chat call is made after it, and the request is answered 200 with
\* status processed; the chat call of a request starts only after its
\* ticketing call is over and the outcome is audited.
C20_TicketingFailureNotFatal ==
    \A w \in HookHandlerIds :
        LET request == hook_handlers[w] IN
        /\ \A i \in JiraFailureAudits(request) :
               /\ \E k \in DOMAIN audit_events :
                      /\ audit_events[k].event_type = "jira"
                      /\ audit_events[k].status = "failure"
                      /\ audit_events[k].jira_key = request.incident[1].jira_key
               /\ \E j \in Calls(request, "slack") : i < j
               /\ request.pc \in {"slack", "done"}
               /\ request.pc = "done" => Responded(request, 200, "processed")
        /\ \A j \in Calls(request, "slack") :
               \E i \in AuditsOf(request) :
                   /\ request.effects[i].name = "jira"
                   /\ i < j
                   /\ \E k \in Calls(request, "jira") : k < i
        /\ request.pc = "jira" => Calls(request, "slack") = {}

\* C20 witness: a request whose ticketing call failed went on to the chat
\* call and has been answered 200, processed.
C20_Witness ==
    \E w \in HookHandlerIds :
        /\ JiraFailureAudits(hook_handlers[w]) # {}
        /\ Calls(hook_handlers[w], "slack") # {}
        /\ Responded(hook_handlers[w], 200, "processed")

\* the audit events of a request, in the order it wrote them
AuditTrail(request) == SelectSeq(request.effects, LAMBDA e : e.kind = "audit")

\* the dry_run events among them
DryRunTrail(request) ==
    SelectSeq(AuditTrail(request), LAMBDA e : e.name = "dry_run")

\* C21: in dry-run mode no request makes a ticketing or chat call; a
\* processed request wrote exactly two dry_run events with status skipped,
\* would_have_update_jira then would_have_post_slack; no jira or slack
\* event is in the audit trail.
C21_DryRunReplacesExternalCalls ==
    settings.dry_run =>
        /\ \A w \in HookHandlerIds :
               LET request == hook_handlers[w] IN
               /\ Calls(request, "jira") = {}
               /\ Calls(request, "slack") = {}
               /\ \A i \in AuditsOf(request) :
                      request.effects[i].name \notin {"jira", "slack"}
               /\ Responded(request, 200, "processed") =>
                      /\ Len(DryRunTrail(request)) = 2
                      /\ DryRunTrail(request)[1].action
                             = "would_have_update_jira"
                      /\ DryRunTrail(request)[2].action
                             = "would_have_post_slack"
                      /\ \A i \in 1..2 :
                             DryRunTrail(request)[i].status = "skipped"
        /\ \A k \in DOMAIN audit_events :
               audit_events[k].event_type \notin {"jira", "slack"}
        /\ Cardinality({k \in DOMAIN audit_events :
                            audit_events[k].event_type = "dry_run"})
               = 2 * Cardinality({w \in HookHandlerIds :
                         Responded(hook_handlers[w], 200, "processed")})

\* C21 witness: in dry-run mode a request has been processed and the two
\* dry_run events are in the audit trail.
C21_Witness ==
    /\ settings.dry_run
    /\ \E w \in HookHandlerIds :
           Responded(hook_handlers[w], 200, "processed")
    /\ \E k \in DOMAIN audit_events :
           audit_events[k].action = "would_have_post_slack"

\* parsing the body or normalizing the payload raises
Malformed(payload) == ~payload.json \/ IsRaised(normalize_fields(payload))

\* C22: a request whose payload is malformed is answered 500 and a
\* normalization event with status failure is written to the audit trail.
C22_MalformedPayloadAudited ==
    [][\A w \in HookHandlerIds :
           (BodyRead(w) /\ Malformed(hook_handlers'[w].body[1])) =>
               /\ Responded(hook_handlers'[w], 500, "error")
               /\ \E k \in DOMAIN audit_events' :
                      /\ k > Len(audit_events)
                      /\ audit_events'[k].event_type = "normalization"
                      /\ audit_events'[k].status = "failure"]_vars

\* the step of the pipeline an audit event belongs to (0: none of them)
StepOf(e) ==
    CASE e.name = "webhook" /\ e.action = "received" -> 1
      [] e.name = "normalization" -> 2
      [] e.name = "correlation" -> 3
      [] e.name = "llm_triage" -> 4
      [] e.name = "policy" /\ e.action = "override" -> 5
      [] e.name = "policy" /\ e.action = "human_review_required" -> 6
      [] e.name = "jira" -> 7
      [] e.name = "dry_run" /\ e.action = "would_have_update_jira" -> 7
      [] e.name = "slack" -> 8
      [] e.name = "dry_run" /\ e.action = "would_have_post_slack" -> 8
      [] OTHER -> 0

\* C28: the audit events of a request answered processed are, in this
\* order: webhook received, normalization, correlation, llm_triage with
\* status success, the policy override (there iff the severity was
\* overridden), the human-review flag (there iff review is needed), the
\* ticketing event (jira or dry_run), the chat event (slack or dry_run).
C28_ProcessedAuditOrder ==
    \A w \in HookHandlerIds :
        LET request == hook_handlers[w]
            trail == AuditTrail(request)
        IN  Responded(request, 200, "processed") =>
                /\ [i \in 1..Len(trail) |-> StepOf(trail[i])]
                       = <<1, 2, 3, 4>>
                         \o OnlyIf(request.policy_result[1].severity_overridden,
                                   <<5>>)
                         \o OnlyIf(request.policy_result[1].needs_human_review,
                                   <<6>>)
                         \o <<7, 8>>
                /\ trail[4].status = "success"
                /\ settings.dry_run <=> trail[Len(trail)].name = "dry_run"
                /\ settings.dry_run <=> trail[Len(trail) - 1].name = "dry_run"

\* C28 witness: a processed request whose severity was overridden and that
\* needs human review, so that all eight events are in its trail.
C28_Witness ==
    \E w \in HookHandlerIds :
        /\ Responded(hook_handlers[w], 200, "processed")
        /\ hook_handlers[w].policy_result[1].severity_overridden
        /\ hook_handlers[w].policy_result[1].needs_human_review
        /\ Len(AuditTrail(hook_handlers[w])) = 8

\* a processed request with neither policy event (six events)
C28_PlainWitness ==
    \E w \in HookHandlerIds :
        /\ Responded(hook_handlers[w], 200, "processed")
        /\ ~hook_handlers[w].policy_result[1].severity_overridden
        /\ ~hook_handlers[w].policy_result[1].needs_human_review

\* the rows of the correlation store that are not of this key, in order
RowsOfOthers(table, key) == SelectSeq(table, LAMBDA r : r.jira_key # key)

\* the places of an effect among the effects of a request
PlacesOf(request, kind, name) ==
    {i \in DOMAIN request.effects :
        request.effects[i].kind = kind /\ request.effects[i].name = name}

\* the correlation store holds a record of the incident of the request
RecordIn(request, table) ==
    \E i \in DOMAIN table : table[i].jira_key = request.incident[1].jira_key

\* C29: the step of an ingest that looks up similar incidents leaves every
\* record of another key as it was, and writes the record of the incident
\* after the correlation audit event and before the LLM call starts; when
\* the LLM call then fails and the request is answered 500, the record is
\* in the store.
C29_RecordInsertedBeforeLLM ==
    [][\A w \in HookHandlerIds :
           LET before == hook_handlers[w]
               after == hook_handlers'[w]
           IN  /\ (before.pc = "body" /\ after.pc = "llm") =>
                      /\ RowsOfOthers(incidents_table',
                                      after.incident[1].jira_key)
                             = RowsOfOthers(incidents_table,
                                            after.incident[1].jira_key)
                      /\ RecordIn(after, incidents_table')
                      /\ \A a \in PlacesOf(after, "audit", "correlation"),
                            r \in PlacesOf(after, "insert", "incidents"),
                            c \in PlacesOf(after, "call", "llm") :
                             a < r /\ r < c
                      /\ PlacesOf(after, "audit", "correlation") # {}
                      /\ PlacesOf(after, "insert", "incidents") # {}
                      /\ PlacesOf(after, "call", "llm") # {}
               /\ (before.pc = "llm" /\ Responded(after, 500, "error")) =>
                      RecordIn(after, incidents_table')
      ]_vars

\* C29 witness: the LLM call of a request failed, the request was answered
\* 500 and the record of its incident is in the correlation store.
C29_Witness ==
    \E w \in HookHandlerIds :
        /\ Responded(hook_handlers[w], 500, "error")
        /\ PlacesOf(hook_handlers[w], "call", "llm") # {}
        /\ RecordIn(hook_handlers[w], incidents_table)

\* the requests counted in webhooks_received
Counted ==
    {w \in HookHandlerIds :
        PlacesOf(hook_handlers[w], "metric", "webhooks_received") # {}}

\* those of them answered with this code and status
Ended(code, status) ==
    {w \in Counted : Responded(hook_handlers[w], code, status)}

\* C37: between any two handler steps webhooks_processed equals
\* incidents_triaged, llm_errors + webhooks_processed is at most llm_calls,
\* llm_calls is at most webhooks_received, and every request counted in
\* webhooks_received that has ended was answered skipped, processed or 500.
C37_CounterRelations ==
    /\ metrics.webhooks_processed = metrics.incidents_triaged
    /\ metrics.llm_errors + metrics.webhooks_processed <= metrics.llm_calls
    /\ metrics.llm_calls <= metrics.webhooks_received
    /\ metrics.webhooks_received = Cardinality(Counted)
    /\ metrics.webhooks_processed = Cardinality(Ended(200, "processed"))
    /\ \A w \in Counted :
           hook_handlers[w].pc = "done" =>
               w \in Ended(200, "skipped") \cup Ended(200, "processed")
                     \cup Ended(500, "error")

\* C37 witness: a counted request has been processed, after its LLM call,
\* ticketing call and chat call.
C37_Witness ==
    /\ Ended(200, "processed") # {}
    /\ metrics.webhooks_processed = 1
    /\ metrics.incidents_triaged = 1
    /\ metrics.llm_calls = 1
    /\ metrics.webhooks_received = 1

-----------------------------------------------------------------------------
(* Part 5: components on their own.                                        *)
(*                                                                         *)
(* AuditService.log with sinks that may fail: call_args keeps the calls    *)
(* made so far, each with the event and what became of each sink, and      *)
(* call_result what the last call returned.                                *)

LoggedEvents ==
    { AuditEvent("webhook", "INC-1", NULL, "received", "success"),
      AuditEvent("llm_triage", "INC-1", Some("unknown"), "triaged",
                 "failure") }

AuditInit ==
    /\ PolicyIdle
    /\ WebIdle
    /\ CorrIdle
    /\ HookIdle
    /\ UnitIdle
    /\ settings = [dry_run |-> FALSE]

\* one call of AuditService.log
LogEvent ==
    /\ Len(call_args) < MaxLogCalls
    /\ \E event \in LoggedEvents, db_fails \in BOOLEAN,
          jsonl_fails \in BOOLEAN :
           /\ write_sinks(event, db_fails, jsonl_fails)
           /\ call_args' = Append(call_args,
                                  [event |-> event, db_fails |-> db_fails,
                                   jsonl_fails |-> jsonl_fails])
           /\ call_result' = Some(event)
    /\ UNCHANGED <<policyVars, web_incidents, clock, last_request,
                   last_response, corrVars, hookVars, rate_threads,
                   rate_lock>>

AuditNext == LogEvent

AuditSpec == AuditInit /\ [][AuditNext]_vars

\* the events of the calls so far whose sink did not fail
Written(calls, sink) ==
    LET kept == SelectSeq(calls,
                          LAMBDA c : IF sink = "db" THEN ~c.db_fails
                                     ELSE ~c.jsonl_fails)
    IN  [i \in 1..Len(kept) |-> kept[i].event]

\* C23: each sink holds, in call order, the events of the calls in which it
\* did not fail, whatever became of the other sink; every call returns its
\* event; when no sink has failed the table and the file are equal.
C23_AuditSinksIndependent ==
    /\ audit_events = Written(call_args, "db")
    /\ audit_jsonl = Written(call_args, "jsonl")
    /\ call_args # << >> =>
           call_result = Some(call_args[Len(call_args)].event)
    /\ (\A i \in DOMAIN call_args :
            ~call_args[i].db_fails /\ ~call_args[i].jsonl_fails) =>
           audit_events = audit_jsonl

\* C23 witness: a call in which the store failed wrote the file, a call in
\* which the file failed wrote the store.
C23_Witness ==
    /\ \E i \in DOMAIN call_args :
           call_args[i].db_fails /\ ~call_args[i].jsonl_fails
    /\ \E i \in DOMAIN call_args :
           ~call_args[i].db_fails /\ call_args[i].jsonl_fails
    /\ audit_events # << >>
    /\ audit_jsonl # << >>
    /\ audit_events # audit_jsonl

-----------------------------------------------------------------------------
(* RateLimiter.is_allowed called by threads of their own.  A thread reads  *)
(* the clock, takes the lock, drops the expired entries of its key,        *)
(* decides, and gives the lock back as it returns; the clock moves on      *)
(* between any two steps.  call_args holds the arguments the limiter was   *)
(* constructed with.                                                       *)

LimiterArgs == [max_requests : {1, 2}]

RateInit ==
    /\ PolicyIdle
    /\ WebIdle
    /\ CorrIdle
    /\ HookIdle
    /\ settings = [dry_run |-> FALSE]
    /\ call_args \in {Some(a) : a \in LimiterArgs}
    /\ call_result = NULL
    /\ rate_threads = [t \in RateThreadIds |-> IdleThread]
    /\ rate_lock = NULL

\* what no step of the limiter touches
RateFrame ==
    UNCHANGED <<policyVars, webVars, incidents_table, corr_handlers,
                settings, metrics, hook_handlers, requests_total,
                call_args, call_result>>

\* rate_limit.py 38-39: now = time.time()
ReadClock(t) ==
    /\ rate_threads[t].pc = "idle"
    /\ \E ip \in ClientIps :
           rate_threads' =
               [rate_threads EXCEPT ![t] =
                   [pc |-> "wait", ip |-> ip, now |-> time_time,
                    allowed |-> NULL]]
    /\ UNCHANGED <<rate_lock, rate_requests, now>>
    /\ RateFrame

\* rate_limit.py 41: with self._lock
AcquireLock(t) ==
    /\ rate_threads[t].pc = "wait"
    /\ rate_lock = NULL
    /\ rate_lock' = Some(t)
    /\ rate_threads' = [rate_threads EXCEPT ![t].pc = "locked"]
    /\ UNCHANGED <<rate_requests, now>>
    /\ RateFrame

\* rate_limit.py 43-45: the entries at or before the cutoff are dropped
CleanEntries(t) ==
    /\ rate_threads[t].pc = "locked"
    /\ LET ip == rate_threads[t].ip
           cutoff == rate_threads[t].now - rate_limit_window_seconds
       IN  rate_requests' =
               [rate_requests EXCEPT ![ip] =
                   SelectSeq(rate_requests[ip], LAMBDA ts : ts > cutoff)]
    /\ rate_threads' = [rate_threads EXCEPT ![t].pc = "cleaned"]
    /\ UNCHANGED <<rate_lock, now>>
    /\ RateFrame

\* rate_limit.py 47-66: the call is refused when the key has max_requests
\* entries, recorded otherwise; returning releases the lock
Decide(t) ==
    /\ rate_threads[t].pc = "cleaned"
    /\ LET ip == rate_threads[t].ip
           current_count == Len(rate_requests[ip])
       IN  IF current_count >= call_args[1].max_requests
           THEN /\ rate_threads' =
                       [rate_threads EXCEPT ![t].pc = "done",
                                            ![t].allowed = Some(FALSE)]
                /\ UNCHANGED rate_requests
           ELSE /\ rate_threads' =
                       [rate_threads EXCEPT ![t].pc = "done",
                                            ![t].allowed = Some(TRUE)]
                /\ rate_requests' =
                       [rate_requests EXCEPT ![ip] =
                           Append(@, rate_threads[t].now)]
    /\ rate_lock' = NULL
    /\ UNCHANGED now
    /\ RateFrame

\* a minute passes
Tick ==
    /\ now < MaxRateClock
    /\ now' = now + 1
    /\ UNCHANGED <<rate_threads, rate_lock, rate_requests>>
    /\ RateFrame

RateNext ==
    \/ \E t \in RateThreadIds : ReadClock(t)
    \/ \E t \in RateThreadIds : AcquireLock(t)
    \/ \E t \in RateThreadIds : CleanEntries(t)
    \/ \E t \in RateThreadIds : Decide(t)
    \/ Tick

RateSpec == RateInit /\ [][RateNext]_vars

\* the calls of a key answered allowed whose timestamps lie in the window
\* of window_seconds that starts at instant a
AllowedInWindow(ip, a) ==
    {t \in RateThreadIds :
        /\ rate_threads[t].allowed = Some(TRUE)
        /\ rate_threads[t].ip = ip
        /\ a <= rate_threads[t].now
        /\ rate_threads[t].now < a + rate_limit_window_seconds}

\* C24: per key, the calls answered allowed whose timestamps lie in one
\* window of window_seconds are never more than max_requests; a thread
\* that reads or rewrites the list of a key holds the lock.
C24_WindowNeverOverfilled ==
    /\ \A ip \in ClientIps : \A t \in RateThreadIds :
           rate_threads[t].allowed = Some(TRUE) =>
               Cardinality(AllowedInWindow(ip, rate_threads[t].now))
                   <= call_args[1].max_requests
    /\ \A t \in RateThreadIds :
           rate_threads[t].pc \in {"locked", "cleaned"} =>
               rate_lock = Some(t)

-----------------------------------------------------------------------------
(* Deliveries of one incident webhook: the same payload, with the right    *)
(* secret, is delivered again and again, a minute or more apart or at      *)
(* once, and the deliveries run interleaved at the awaits.                 *)

DeliveredPayload ==
    CHOOSE p \in HookPayloads : p.key = "INC-1"

DeliveryInit ==
    /\ HookIdle
    /\ UnitIdle
    /\ settings \in [dry_run : BOOLEAN]
    /\ PolicyIdle
    /\ WebIdle
    /\ CorrIdle

Deliver(w) ==
    /\ hook_handlers[w].pc = "idle"
    /\ w = requests_total + 1
    /\ requests_total' = w
    /\ \E ip \in ClientIps : receive(w, Some(autopilot_webhook_secret), ip)
    /\ HookFrame

ReadDelivery(w) ==
    /\ hook_handlers[w].pc = "body"
    /\ LET inc == normalize_jira_webhook(DeliveredPayload)
       IN  \E related \in find_correlated_incidents(
                              inc[1].component, inc[1].summary,
                              correlation_window_minutes, inc[1].jira_key) :
               read_body(w, DeliveredPayload, related)
    /\ UNCHANGED <<rate_requests, requests_total>>
    /\ HookFrame

\* a minute passes between two deliveries
DeliveryTick ==
    /\ now < MaxRateClock
    /\ now' = now + 1
    /\ UNCHANGED <<policyVars, webVars, incidents_table, corr_handlers,
                   hookVars, unitVars>>

DeliveryNext ==
    \/ \E w \in HookHandlerIds : Deliver(w)
    \/ \E w \in HookHandlerIds : ReadDelivery(w)
    \/ \E w \in HookHandlerIds : LLMReturns(w)
    \/ \E w \in HookHandlerIds : JiraReturns(w)
    \/ \E w \in HookHandlerIds : SlackReturns(w)
    \/ DeliveryTick

DeliverySpec == DeliveryInit /\ [][DeliveryNext]_vars

-----------------------------------------------------------------------------
(* Properties of repeated deliveries, checked under DeliverySpec *)

\* the deliveries that passed authentication and the rate limiter and
\* whose body has been read
Delivered == {w \in HookHandlerIds : hook_handlers[w].body # NULL}

\* those whose LLM call has returned a verdict
Triaged == {w \in Delivered : hook_handlers[w].llm_result # NULL}

\* the audit events of one type written for the delivered incident
TrailCount(event_type) ==
    Cardinality({k \in DOMAIN audit_events :
                    /\ audit_events[k].event_type = event_type
                    /\ audit_events[k].jira_key = DeliveredPayload.key})

\* C25: every delivery of the same incident webhook that passes
\* authentication and the rate limiter runs the whole pipeline again: one
\* LLM call, one set of audit events and, outside dry-run, one ticketing
\* call per delivery.
C25_EveryDeliveryRunsThePipeline ==
    /\ \A w \in Delivered :
           Cardinality(Calls(hook_handlers[w], "llm")) = 1
    /\ metrics.llm_calls = Cardinality(Delivered)
    /\ \A event_type \in {"webhook", "normalization", "correlation"} :
           TrailCount(event_type) = Cardinality(Delivered)
    /\ TrailCount("llm_triage")
           = Cardinality({w \in Delivered : hook_handlers[w].pc # "llm"})
    /\ ~settings.dry_run =>
           /\ \A w \in Triaged :
                  Cardinality(Calls(hook_handlers[w], "jira")) = 1
           /\ metrics.jira_updates + metrics.jira_errors
                  = Cardinality({w \in Triaged :
                                    hook_handlers[w].pc \in {"slack", "done"}})
           /\ TrailCount("jira") = metrics.jira_updates + metrics.jira_errors
    /\ settings.dry_run =>
           TrailCount("dry_run") = 2 * Cardinality(Triaged)

\* C25 witness: outside dry-run the incident has been delivered twice and
\* processed twice: two LLM calls, two ticketing updates, two of each
\* audit event.
C25_Witness ==
    /\ ~settings.dry_run
    /\ Cardinality({w \in Delivered :
                       Responded(hook_handlers[w], 200, "processed")}) = 2
    /\ metrics.llm_calls = 2
    /\ metrics.jira_updates = 2
    /\ TrailCount("webhook") = 2
    /\ TrailCount("jira") = 2

\* the increments of counter m that the first k requests have made
RECURSIVE IncrementsOf(_, _, _)
IncrementsOf(handlers, m, k) ==
    IF k = 0 THEN 0
    ELSE IncrementsOf(handlers, m, k - 1)
         + Cardinality({i \in DOMAIN handlers[k].effects :
                           /\ handlers[k].effects[i].kind = "metric"
                           /\ handlers[k].effects[i].name = m})

\* the requests that have passed authentication and the rate limiter
PassedLimiter(handlers) ==
    {w \in HookHandlerIds :
        /\ handlers[w].pc # "idle"
        /\ handlers[w].response \notin {HttpResponse(401, "error"),
                                         HttpResponse(429, "error")}}

\* the requests between two awaits of the pipeline
InFlight == {w \in HookHandlerIds :
                hook_handlers[w].pc \in {"body", "llm", "jira", "slack"}}

\* C30: whatever the interleaving of the request handlers, no increment of
\* a counter is lost (each counter is the number of increments the requests
\* have made, webhooks_received the number of requests that have passed
\* the rate limiter) and no step makes a counter smaller.
C30_CountersLoseNothing ==
    [][\A m \in MetricNames :
           /\ metrics'[m] >= metrics[m]
           /\ metrics'[m] = IncrementsOf(hook_handlers', m, MaxRequests)
           /\ metrics'.webhooks_received
                  = Cardinality(PassedLimiter(hook_handlers'))
      ]_vars

\* C30 witness: two requests are in flight at once, both counted as
\* received, one waiting for the LLM while the other is further on.
C30_Witness ==
    /\ Cardinality(InFlight) = 2
    /\ metrics.webhooks_received = 2
    /\ metrics.llm_calls = 2
    /\ \E v, w \in InFlight :
           hook_handlers[v].pc = "llm" /\ hook_handlers[w].pc = "slack"

-----------------------------------------------------------------------------
(* normalize_jira_webhook on its own: one call on every payload.           *)

W_INCIDENT == <<"I", "N", "C", "I", "D", "E", "N", "T">>

\* payloads with every shape of issue type, with and without an issue key,
\* a reporter, a description and a component
NormPayloads ==
    { [json |-> TRUE, key |-> key,
       fields |-> [issuetype |-> issuetype, summary |-> T_DB_down,
                   description |-> description, labels |-> << >>,
                   components |-> components, reporter |-> reporter]] :
        key \in {"", "INC-1"},
        issuetype \in {TypeObject(W_Incident), TypeObject(W_INCIDENT),
                       TypeObject(W_Bug), TypeNameless, TypeNullName,
                       TypeString(W_Incident)},
        description \in {NULL, Some(W_Breach)},
        components \in {<< >>, <<C_payments>>},
        reporter \in {NULL, Some(W_Ann)} }

NormInit ==
    /\ PolicyIdle
    /\ WebIdle
    /\ CorrIdle
    /\ HookIdle
    /\ settings = [dry_run |-> FALSE]
    /\ call_args \in {Some(p) : p \in NormPayloads}
    /\ call_result = NULL
    /\ rate_threads = [t \in RateThreadIds |-> IdleThread]
    /\ rate_lock = NULL

\* the call: what normalize_jira_webhook returns or raises
Normalize ==
    /\ call_result = NULL
    /\ call_result' = Some(normalize_fields(call_args[1]))
    /\ UNCHANGED <<policyVars, webVars, corrVars, hookVars, call_args,
                   rate_threads, rate_lock>>

NormNext == Normalize

NormSpec == NormInit /\ [][NormNext]_vars

\* the call is over and raised nothing
Returned == call_result # NULL /\ ~IsRaised(call_result[1])

\* the lowercased issue-type name of the payload is "incident"
NamedIncident(payload) ==
    /\ issue_type_name(payload.fields.issuetype) # NULL
    /\ issue_type_name(payload.fields.issuetype)[1] = W_incident

\* the incident record the payload describes, with the defaults
DefaultedRecord(payload, record) ==
    /\ record.jira_key = payload.key
    /\ record.summary = payload.fields.summary
    /\ record.component =
           IF payload.fields.components = << >> THEN C_unknown
           ELSE payload.fields.components[1]
    /\ record.reporter =
           IF payload.fields.reporter = NULL THEN C_unknown
           ELSE payload.fields.reporter[1]
    /\ record.description =
           IF payload.fields.description = NULL THEN << >>
           ELSE payload.fields.description[1]

-----------------------------------------------------------------------------
(* calculate_risk_score on its own: one call on every severity, every      *)
(* environment and a grid of confidences from 0.0 to 1.0.                  *)

RiskConfidences == {0, 1, 250, 500, 699, 700, 850, 999, 1000}

RiskInit ==
    /\ PolicyIdle
    /\ WebIdle
    /\ CorrIdle
    /\ HookIdle
    /\ settings = [dry_run |-> FALSE]
    /\ call_args \in {Some(a) : a \in [severity : Severity,
                                        confidence : RiskConfidences,
                                        environment : Environment]}
    /\ call_result = NULL
    /\ rate_threads = [t \in RateThreadIds |-> IdleThread]
    /\ rate_lock = NULL

\* the call
Score ==
    /\ call_result = NULL
    /\ call_result' = Some(calculate_risk_score(call_args[1].severity,
                                                call_args[1].confidence,
                                                call_args[1].environment))
    /\ UNCHANGED <<policyVars, webVars, corrVars, hookVars, call_args,
                   rate_threads, rate_lock>>

RiskNext == Score

RiskSpec == RiskInit /\ [][RiskNext]_vars

\* C27: for every severity, every environment and every confidence in
\* [0, 1] the risk score lies in [0, 1] and equals 0.4 * severity weight
\* + 0.3 * (1 - confidence) + 0.3 * environment weight, with the weights
\* P1 1.0, P2 0.75, P3 0.5, P4 0.25 and prod 1.0, staging 0.5, dev 0.25,
\* unknown 0.5 (score in ten-thousandths, weights in thousandths).
C27_RiskScoreIsTheWeightedSum ==
    call_result # NULL =>
        LET a == call_args[1]
            sw == CASE a.severity = "P1" -> 1000 [] a.severity = "P2" -> 750
                    [] a.severity = "P3" -> 500 [] a.severity = "P4" -> 250
            ew == CASE a.environment = PROD -> 1000
                    [] a.environment = STAGING -> 500
                    [] a.environment = DEV -> 250
                    [] a.environment = UNKNOWN -> 500
        IN  /\ call_result[1] \in 0..RiskOne
            /\ call_result[1] = 4 * sw + 3 * (1000 - a.confidence) + 3 * ew

\* C27 witness: the extreme scores were computed, P1 in prod with
\* confidence 0.0 scoring 1.0 in one run and P4 in dev with confidence
\* 1.0 scoring 0.175 in another.
C27_Witness ==
    /\ call_result # NULL
    /\ \/ /\ call_args[1] = [severity |-> "P1", confidence |-> 0,
                              environment |-> PROD]
          /\ call_result[1] = RiskOne
       \/ /\ call_args[1] = [severity |-> "P4", confidence |-> 1000,
                              environment |-> DEV]
          /\ call_result[1] = 1750

-----------------------------------------------------------------------------
(* The whole service: webhook ingests and web-UI requests in any order,    *)
(* both writing to the one audit_events table.                             *)

ServiceInit == DeliveryInit

\* one ingest of the incident webhook, step by step, among the web-UI
\* requests
ServiceNext ==
    \/ WebNext
    \/ Deliver(1)
    \/ ReadDelivery(1)
    \/ LLMReturns(1)
    \/ JiraReturns(1)
    \/ SlackReturns(1)

ServiceSpec == ServiceInit /\ [][ServiceNext]_vars

\* s is t, or t with rows added at its end
IsPrefix(s, t) ==
    /\ Len(s) <= Len(t)
    /\ \A i \in 1..Len(s) : s[i] = t[i]

\* C31: audit events are append-only: whatever step a webhook ingest or a
\* web-UI request takes, the audit_events table after the step is the
\* table before it with zero or more rows added at its end.
C31_AuditAppendOnly ==
    [][IsPrefix(audit_events, audit_events')]_vars

\* C31 witness: the table holds events of a web-UI request and, after
\* them, events of a webhook ingest.
C31_Witness ==
    \E i, j \in DOMAIN audit_events :
        /\ i < j
        /\ audit_events[i].event_type = "incident_triaged"
        /\ audit_events[j].event_type = "llm_triage"

-----------------------------------------------------------------------------
(* _parse_llm_response of app/services/llm_client.py on its own, applied   *)
(* to the JSON object json.loads gives.  A JSON value is a string, a       *)
(* number (in thousandths), null or a list of strings; a key of the object *)
(* is missing (NULL) or holds a value.                                     *)

JStr(text) == [type |-> "string", text |-> text, number |-> 0, items |-> << >>]
JNum(n) == [type |-> "number", text |-> << >>, number |-> n, items |-> << >>]
JNull == [type |-> "null", text |-> << >>, number |-> 0, items |-> << >>]
JList(items) ==
    [type |-> "list", text |-> << >>, number |-> 0, items |-> items]

\* data.get(key, default)
Get(field, default) == IF field = NULL THEN default ELSE field[1]

DigitOrder == <<"0", "1", "2", "3", "4", "5", "6", "7", "8", "9">>

DigitValue(c) == (CHOOSE i \in DOMAIN DigitOrder : DigitOrder[i] = c) - 1

RECURSIVE DecimalOf(_)
DecimalOf(digits) ==
    IF digits = << >> THEN 0
    ELSE DecimalOf(SubSeq(digits, 1, Len(digits) - 1)) * 10
         + DigitValue(digits[Len(digits)])

\* float(text) for a text of digits with at most one point and at most
\* three decimals, in thousandths; NULL stands for the ValueError that any
\* other text of the inputs raises
float_of_text(text) ==
    LET points == {i \in DOMAIN text : text[i] = "."}
        point == IF points = {} THEN Len(text) + 1
                 ELSE CHOOSE i \in points : TRUE
        whole == SubSeq(text, 1, point - 1)
        decimals == SubSeq(text, point + 1, Len(text))
        padded == SubSeq(decimals \o <<"0", "0", "0">>, 1, 3)
    IN  IF \/ \E i \in DOMAIN text : text[i] \notin Digits \cup {"."}
           \/ Cardinality(points) > 1
           \/ Len(whole) + Len(decimals) = 0
           \/ Len(decimals) > 3
        THEN NULL
        ELSE Some(DecimalOf(whole) * 1000 + DecimalOf(padded))

\* float(value): NULL stands for the ValueError or TypeError
float_of(value) ==
    CASE value.type = "number" -> Some(value.number)
      [] value.type = "string" -> float_of_text(value.text)
      [] OTHER -> NULL

W_None == <<"N", "o", "n", "e">>

\* str(value) of a string or of None
str_of(value) == IF value.type = "null" THEN W_None ELSE value.text

MaxActions == 7

\* first_actions[:7]
FirstActions(items) == SubSeq(items, 1, Min(MaxActions, Len(items)))

\* mutant: the confidence is taken as it comes
clamp_confidence_off(confidence) == confidence

\* max(0.0, min(1.0, confidence))
clamp_confidence(confidence) == Max(0, Min(1000, confidence))

\* _parse_llm_response, from data = json.loads(content) on: the verdict, or
\* the exception the first failing line raises
parse_llm_response(data) ==
    LET incident_type_value == Get(data.incident_type, JStr(C_unknown))
        severity_value == Get(data.severity, JStr(<<"P", "4">>))
        confidence_value == Get(data.confidence, JNum(500))
        first_actions_value == Get(data.first_actions, JList(<< >>))
        incident_type == ParseIncidentType(Lower(incident_type_value.text))
        severity == ParseSeverity(Upper(severity_value.text))
        confidence == float_of(confidence_value)
        first_actions ==
            IF first_actions_value.type # "list"
            THEN <<str_of(first_actions_value)>>
            ELSE first_actions_value.items
    IN  IF incident_type_value.type # "string"
        THEN Raises("AttributeError")
        ELSE IF severity_value.type # "string"
        THEN Raises("AttributeError")
        ELSE IF confidence = NULL
        THEN Raises(IF confidence_value.type = "string"
                    THEN "ValueError" ELSE "TypeError")
        ELSE Some([incident_type |->
                       IF incident_type = NULL THEN "unknown"
                       ELSE incident_type[1],
                   severity |->
                       IF severity = NULL THEN "P4" ELSE severity[1],
                   confidence |-> clamp_confidence(confidence[1]),
                   first_actions |-> FirstActions(first_actions)])

W_Security == <<"S", "e", "c", "u", "r", "i", "t", "y">>
W_database == <<"d", "a", "t", "a", "b", "a", "s", "e">>
W_weird == <<"w", "e", "i", "r", "d">>
W_high == <<"h", "i", "g", "h">>
W_restart == <<"r", "e", "s", "t", "a", "r", "t">>

\* the action texts "1" .. "8"
ActionTexts(n) == [i \in 1..n |-> <<DigitOrder[i + 1]>>]

\* the JSON objects the parser is applied to
LlmResponses ==
    [incident_type : {NULL, Some(JStr(W_Security)), Some(JStr(W_database)),
                      Some(JStr(W_weird)), Some(JNum(5000)), Some(JNull)},
     severity : {NULL, Some(JStr(<<"p", "1">>)), Some(JStr(<<"P", "3">>)),
                 Some(JStr(<<"P", "9">>)), Some(JNum(1000))},
     confidence : {NULL, Some(JNum(-500)), Some(JNum(850)), Some(JNum(1500)),
                   Some(JStr(<<"0", ".", "9">>)), Some(JStr(W_high)),
                   Some(JNull)},
     first_actions : {NULL, Some(JList(<< >>)), Some(JList(ActionTexts(3))),
                      Some(JList(ActionTexts(8))), Some(JStr(W_restart))}]

ParseInit ==
    /\ PolicyIdle
    /\ WebIdle
    /\ CorrIdle
    /\ HookIdle
    /\ settings = [dry_run |-> FALSE]
    /\ call_args \in {Some(data) : data \in LlmResponses}
    /\ call_result = NULL
    /\ rate_threads = [t \in RateThreadIds |-> IdleThread]
    /\ rate_lock = NULL

\* the call
ParseResponse ==
    /\ call_result = NULL
    /\ call_result' = Some(parse_llm_response(call_args[1]))
    /\ UNCHANGED <<policyVars, webVars, corrVars, hookVars, call_args,
                   rate_threads, rate_lock>>

ParseNext == ParseResponse

ParseSpec == ParseInit /\ [][ParseNext]_vars

\* every key of the object is there and holds a value of its type
WellTyped(data) ==
    /\ data.incident_type # NULL /\ data.incident_type[1].type = "string"
    /\ data.severity # NULL /\ data.severity[1].type = "string"
    /\ data.confidence # NULL /\ data.confidence[1].type = "number"
    /\ data.first_actions # NULL /\ data.first_actions[1].type = "list"

\* the verdict is one the LLMTriageResult model accepts
ValidVerdict(verdict) ==
    /\ verdict.incident_type \in IncidentType
    /\ verdict.severity \in Severity
    /\ verdict.confidence \in 0..1000
    /\ Len(verdict.first_actions) <= MaxActions

\* C32: for a JSON object with well-typed fields the parser returns a
\* verdict whose confidence is the given one clamped into [0, 1], whose
\* first_actions are the first 7 given, in order, whose category is the
\* enum value of the lowercased name or unknown when there is none, and
\* whose severity is the value of the uppercased name or P4 when there is
\* none.
C32_ParserCoercesWellTyped ==
    (call_result # NULL /\ WellTyped(call_args[1])) =>
        LET data == call_args[1]
            given == data.confidence[1].number
            actions == data.first_actions[1].items
            type_name == Lower(data.incident_type[1].text)
            severity_name == Upper(data.severity[1].text)
        IN  /\ ~IsRaised(call_result[1])
            /\ LET verdict == call_result[1][1] IN
               /\ verdict.confidence =
                      IF given < 0 THEN 0
                      ELSE IF given > 1000 THEN 1000 ELSE given
               /\ Len(verdict.first_actions) <= 7
               /\ Len(verdict.first_actions)
                      = IF Len(actions) > 7 THEN 7 ELSE Len(actions)
               /\ \A i \in DOMAIN verdict.first_actions :
                      verdict.first_actions[i] = actions[i]
               /\ \A t \in IncidentType :
                      IncidentTypeNames[t] = type_name =>
                          verdict.incident_type = t
               /\ (\A t \in IncidentType : IncidentTypeNames[t] # type_name)
                      => verdict.incident_type = "unknown"
               /\ \A v \in Severity :
                      SeverityNames[v] = severity_name => verdict.severity = v
               /\ (\A v \in Severity : SeverityNames[v] # severity_name)
                      => verdict.severity = "P4"

\* C32 witness: a response with an unrecognised category and severity, a
\* confidence above 1 and eight actions was parsed.
C32_Witness ==
    /\ call_result # NULL
    /\ WellTyped(call_args[1])
    /\ call_args[1].incident_type[1].text = W_weird
    /\ call_args[1].severity[1].text = <<"P", "9">>
    /\ call_args[1].confidence[1].number = 1500
    /\ Len(call_args[1].first_actions[1].items) = 8
    /\ call_result[1][1] = [incident_type |-> "unknown", severity |-> "P4",
                            confidence |-> 1000,
                            first_actions |-> ActionTexts(7)]

\* C33: whatever values the JSON object carries (an unknown or non-string
\* category or severity, a non-numeric or out-of-range confidence, a
\* first_actions that is no list, missing keys), the parser raises nothing
\* and returns a valid verdict, so that the ingest does not take the
\* LLM-failure path.
C33_InvalidValuesAreCoerced ==
    call_result # NULL =>
        /\ ~IsRaised(call_result[1])
        /\ ValidVerdict(call_result[1][1])

-----------------------------------------------------------------------------
(* Further properties of the policy engine, checked under PolicySpec *)

\* C34: in every policy verdict severity_overridden is true exactly when
\* the final severity differs from the original one, and an override
\* reason is present exactly when severity_overridden is true.
C34_ReasonIffOverridden ==
    PolicyDone =>
        /\ Result.severity_overridden
               <=> Result.final_severity # Result.original_severity
        /\ Result.override_reason # NULL <=> Result.severity_overridden

\* C35: for a prod incident the final severity is never less severe than
\* the LLM's, for a non-prod incident never more severe; for a prod
\* incident without outage and security keywords it is the LLM's severity.
C35_OverridesOneDirectional ==
    PolicyDone =>
        /\ Result.original_severity = llm_result.severity
        /\ incident.environment = PROD =>
               SEVERITY_ORDER[Result.final_severity]
                   <= SEVERITY_ORDER[llm_result.severity]
        /\ incident.environment # PROD =>
               SEVERITY_ORDER[Result.final_severity]
                   >= SEVERITY_ORDER[llm_result.severity]
        /\ (incident.environment = PROD /\ ~OutageText /\ ~SecurityText) =>
               Result.final_severity = llm_result.severity

\* C35 witness: a prod incident was raised (P4 with outage keywords became
\* P2) in one run, a non-prod one lowered (P1 became P3) in another, and a
\* prod incident without keywords kept its P3 in a third.
C35_Witness ==
    /\ PolicyDone
    /\ \/ /\ incident.environment = PROD /\ OutageText /\ ~SecurityText
          /\ llm_result.severity = "P4" /\ Result.final_severity = "P2"
       \/ /\ incident.environment = STAGING
          /\ llm_result.severity = "P1" /\ Result.final_severity = "P3"
       \/ /\ incident.environment = PROD /\ ~OutageText /\ ~SecurityText
          /\ llm_result.severity = "P3" /\ Result.final_severity = "P3"

-----------------------------------------------------------------------------
(* RateLimiter.is_allowed called for two keys, one call after the other as *)
(* the webhook handler calls it, while the clock moves on.  Call t is kept *)
(* in rate_threads[t]: its key, the instant it read and its answer.        *)

LimiterKeys == {"10.0.0.1", "10.0.0.2"}

LimiterInit ==
    /\ PolicyIdle
    /\ WebIdle
    /\ CorrIdle
    /\ UnitIdle
    /\ settings = [dry_run |-> FALSE]
    /\ metrics = [m \in MetricNames |-> 0]
    /\ rate_requests = [ip \in LimiterKeys |-> << >>]
    /\ hook_handlers = [w \in HookHandlerIds |-> IdleRequest]
    /\ requests_total = 0

\* the t-th call of is_allowed, for any key
LimiterCall(t) ==
    /\ rate_threads[t].pc = "idle"
    /\ \A u \in RateThreadIds : u < t => rate_threads[u].pc = "done"
    /\ \E ip \in LimiterKeys :
           /\ rate_requests' =
                  [rate_requests EXCEPT ![ip] = is_allowed(ip).requests]
           /\ rate_threads' =
                  [rate_threads EXCEPT ![t] =
                      [pc |-> "done", ip |-> ip, now |-> time_time,
                       allowed |-> Some(is_allowed(ip).allowed)]]
    /\ UNCHANGED <<rate_lock, now>>
    /\ RateFrame

\* a minute passes
LimiterTick ==
    /\ now < MaxRateClock
    /\ now' = now + 1
    /\ UNCHANGED <<rate_threads, rate_lock, rate_requests>>
    /\ RateFrame

LimiterNext ==
    \/ \E t \in RateThreadIds : LimiterCall(t)
    \/ LimiterTick

LimiterSpec == LimiterInit /\ [][LimiterNext]_vars

\* the smallest timestamp of a non-empty list
Oldest(entries) ==
    CHOOSE ts \in Range(entries) : \A other \in Range(entries) : ts <= other

\* C36: a refused call adds no timestamp to the list of its key; a call
\* made when window_seconds have elapsed since the oldest timestamp still
\* in the list of its key (or when the list is empty) is answered allowed,
\* whatever refused calls came before; a call leaves the list of every
\* other key as it was.
C36_RefusalsDoNotExtendLockout ==
    [][\A t \in RateThreadIds :
           (rate_threads[t].pc = "idle" /\ rate_threads'[t].pc = "done") =>
               LET ip == rate_threads'[t].ip
                   before == rate_requests[ip]
                   after == rate_requests'[ip]
                   allowed == rate_threads'[t].allowed[1]
               IN  /\ ~allowed =>
                          /\ Len(after) <= Len(before)
                          /\ Range(after) \subseteq Range(before)
                   /\ before = << >> => allowed
                   /\ (before # << >>
                       /\ time_time - Oldest(before)
                              >= rate_limit_window_seconds) => allowed
                   /\ \A other \in LimiterKeys \ {ip} :
                          rate_requests'[other] = rate_requests[other]
      ]_vars

\* C36 witness: a key was admitted, then refused in the same window, and
\* admitted again once the window had passed, while the other key was
\* admitted in between.
C36_Witness ==
    \E a, b, c, d \in RateThreadIds :
        /\ a < b /\ b < c /\ c < d
        /\ rate_threads[a].ip = "10.0.0.1"
        /\ rate_threads[a].allowed = Some(TRUE)
        /\ rate_threads[b].ip = "10.0.0.1"
        /\ rate_threads[b].allowed = Some(FALSE)
        /\ rate_threads[c].ip = "10.0.0.2"
        /\ rate_threads[c].allowed = Some(TRUE)
        /\ rate_threads[d].ip = "10.0.0.1"
        /\ rate_threads[d].allowed = Some(TRUE)
        /\ rate_threads[d].now
               = rate_threads[a].now + rate_limit_window_seconds

-----------------------------------------------------------------------------
(* Two incidents of one component with similar titles, INC-1 and INC-2,    *)
(* arrive as webhooks and are handled at the same time.                    *)

PairPayloads == {p \in HookPayloads : p.key \in {"INC-1", "INC-2"}}

PairInit == DeliveryInit

ReadPair(w) ==
    /\ hook_handlers[w].pc = "body"
    /\ \E payload \in PairPayloads :
           LET inc == normalize_jira_webhook(payload)
           IN  \E related \in find_correlated_incidents(
                                  inc[1].component, inc[1].summary,
                                  correlation_window_minutes,
                                  inc[1].jira_key) :
                   read_body(w, payload, related)
    /\ UNCHANGED <<rate_requests, requests_total>>
    /\ HookFrame

PairNext ==
    \/ \E w \in HookHandlerIds : Deliver(w)
    \/ \E w \in HookHandlerIds : ReadPair(w)
    \/ \E w \in HookHandlerIds : LLMReturns(w)
    \/ \E w \in HookHandlerIds : JiraReturns(w)
    \/ \E w \in HookHandlerIds : SlackReturns(w)
    \/ DeliveryTick

PairSpec == PairInit /\ [][PairNext]_vars

\* the requests whose correlation has been looked up
LookedUp == {w \in HookHandlerIds : hook_handlers[w].correlation # NULL}

\* request v was reported correlated with the incident of request w
CorrelatedWith(v, w) ==
    /\ hook_handlers[v].correlation[1].is_correlated
    /\ hook_handlers[v].correlation[1].correlated_key
           = Some(hook_handlers[w].incident[1].jira_key)

\* two ingests the claim is about: different keys, the same known
\* component, similar titles, created inside the window of each other
Alike(v, w) ==
    LET a == hook_handlers[v].incident[1]
        b == hook_handlers[w].incident[1]
    IN  /\ a.jira_key # b.jira_key
        /\ a.component = b.component
        /\ a.component # C_unknown
        /\ SimilarityTable[a.summary, b.summary] >= similarity_threshold
        /\ a.created_at - b.created_at < correlation_window_minutes
        /\ b.created_at - a.created_at < correlation_window_minutes

-----------------------------------------------------------------------------
(* Further properties of the web-UI handlers, checked under WebSpec *)

\* the stored incidents that are not prod and have a triage result
NonProdTriaged(table) ==
    {id \in DOMAIN table :
        table[id].environment # PROD /\ table[id].triage_json # NULL}

\* C39 as stated: the stored triage result of a web incident whose
\* environment is not prod has severity P3 or P4 in every reachable state.
C39_NonProdNeverAboveP3 ==
    \A id \in NonProdTriaged(web_incidents) :
        web_incidents[id].triage_json[1].severity \in {"P3", "P4"}

\* C39 amended: a triage call leaves a non-prod incident with severity P3
\* or P4, and approve and resolve calls and overrides that name no
\* severity keep the stored severity; only an override call that names a
\* severity changes it, to the severity named, P1 and P2 included.
C39_NonProdCappedUntilOverridden ==
    [][\A id \in NonProdTriaged(web_incidents') :
           LET severity == web_incidents'[id].triage_json[1].severity
               named == last_request'.severity
           IN  /\ (last_request'.op = "triage" /\ last_request'.id = id
                   /\ last_response' = 200) => severity \in {"P3", "P4"}
               /\ \/ severity \in {"P3", "P4"}
                  \/ /\ id \in NonProdTriaged(web_incidents)
                     /\ severity = web_incidents[id].triage_json[1].severity
                  \/ /\ last_request'.op = "override"
                     /\ last_request'.id = id
                     /\ last_response' = 200
                     /\ Truthy(named)
                     /\ SeverityNames[severity] = Upper(named[1])
      ]_vars

\* C39 witness: a non-prod incident triaged at P3 or P4 has been
\* overridden to P1.
C39_Witness ==
    \E id \in NonProdTriaged(web_incidents) :
        /\ web_incidents[id].status = "overridden"
        /\ web_incidents[id].triage_json[1].severity = "P1"
        /\ web_incidents[id].original_severity \in {Some("P3"), Some("P4")}

\* the request just handled was an approve or override call
DecisionCall == last_request'.op \in {"approve", "override"}

\* the severity or category name of the request is no enum value
InvalidName(request) ==
    \/ /\ Truthy(request.severity)
       /\ ParseSeverity(Upper(request.severity[1])) = NULL
    \/ /\ Truthy(request.category)
       /\ ParseIncidentType(Lower(request.category[1])) = NULL

\* C40: an approve or override call answered 400 (the incident is not
\* triaged yet, or the severity or category name is invalid) or 404 (the
\* id is unknown) leaves the stored incidents and the audit trail as they
\* were; a call for an unknown id is answered 404, a call for an untriaged
\* incident or with an invalid name 400.
C40_RefusedDecisionChangesNothing ==
    [][DecisionCall =>
           LET request == last_request'
               known == request.id \in DOMAIN web_incidents
           IN  /\ last_response' \in {400, 404} =>
                      /\ web_incidents' = web_incidents
                      /\ audit_events' = audit_events
                      /\ audit_jsonl' = audit_jsonl
               /\ last_response' = 404 <=> ~known
               /\ last_response' = 400 <=>
                      /\ known
                      /\ \/ web_incidents[request.id].triage_json = NULL
                         \/ InvalidName(request)
      ]_vars

\* C40 witness: an override call with a valid severity and an invalid
\* category for a triaged incident was answered 400, the incident still
\* triaged and not overridden.
C40_Witness ==
    /\ last_request.op = "override"
    /\ last_response = 400
    /\ last_request.id \in DOMAIN web_incidents
    /\ web_incidents[last_request.id].triage_json # NULL
    /\ web_incidents[last_request.id].status = "triaged"
    /\ last_request.severity = Some(<<"p", "1">>)
    /\ last_request.category = Some(<<"b", "o", "g", "u", "s">>)

=============================================================================
